---- MODULE Spec2Model ----
(***************************************************************************)
(* Connection lifecycle and streaming coordination of the ALVR server     *)
(* (alvr/server/src/connection.rs, capi.rs).                               *)
(*                                                                         *)
(* One process runs connection_lifecycle_loop; each iteration runs         *)
(* connection_pipeline (discovery || handshake, stream setup, the          *)
(* streaming select!) followed by the CLEANUP_PAUSE, joined with the       *)
(* RETRY_CONNECT_MIN_INTERVAL sleep.  Every await point of the code is a   *)
(* state of pc / hs; what runs between two await points is one action.     *)
(* The session settings, the headset info and the packets of the peer are  *)
(* inputs, drawn with \E where the code reads them.  Time is counted in    *)
(* milliseconds and advances by TickMs; a sleep is a countdown that may be *)
(* served late but never early.                                            *)
(***************************************************************************)
EXTENDS Integers, Sequences, FiniteSets, TLC

\* ---------------------------------------------------------------- constants
CONTROL_CONNECT_RETRY_PAUSE == 500
RETRY_CONNECT_MIN_INTERVAL == 1000
NETWORK_KEEPALIVE_INTERVAL == 1000
CLEANUP_PAUSE == 500
STREAM_SETUP_TIMEOUT == 5000

\* ------------------------------------------------------------------- bounds
\* granularity of the clock (ms per Tick)
TickMs == 500
\* the measured duration of a pipeline run saturates here (ms)
MaxDur == 1000
\* spawned loops that may have completed before the select! is polled again
MaxFinished == 1

\* ------------------------------------------------------------------ domains
\* one client device: the pipeline serves one client at a time, and the entries of
\* the client list are independent of each other
Hostnames == {"h1"}
NoneVal == "None"
\* values of OpenvrConfig; only equality of configs is ever tested
Configs == {"cfg72", "cfg90"}

Spawned == {"receive_loop", "game_audio", "microphone", "video_send",
            "time_sync_send", "haptics_send", "input_receive"}
OnTask == {"keepalive", "control_loop"}
LoopNames == Spawned \cup OnTask

VARIABLES
    pc,                 \* await point of connection_lifecycle_loop / connection_pipeline
    hs,                 \* await point of the client_handshake future ("none": no future)
    disc,               \* client_discovery future: "off", or its auto_trust_clients argument
    trusted_discovered_client_id,
    client_ips,         \* candidate addresses of the running handshake
    client_ip,          \* address of the connected peer
    control_socket,     \* the control socket of the connection: "closed", "open", "dead"
    clients,            \* SESSION_MANAGER client_connections: hostname -> entry
    openvr_config,      \* SESSION_MANAGER openvr_config (persisted)
    driverCfg,          \* the OpenvrConfig the loaded driver was started with
    restartRequested,   \* notify_restart_driver has been called since the driver started
    driftPending,       \* a handshake found the configs different since the driver started
    resolved_config,    \* the OpenvrConfig the last handshake that got to compare resolved
    sleepLeft,          \* ms left of the sleep the pipeline task is in
    retryLeft,          \* ms left of the RETRY_CONNECT_MIN_INTERVAL sleep of the join
    iterElapsed,        \* ms since the iteration started (saturating)
    pipeDur,            \* ms the pipeline ran in this iteration (saturating)
    loops,              \* the loops of the streaming select!: loop -> state
    VIDEO_SENDER, HAPTICS_SENDER, TIME_SYNC_SENDER,
    stream_guard,       \* a StreamCloseGuard is alive
    hsLog,              \* what the running handshake did on config drift, in order
    run,                \* what this pipeline run did (reset when a run starts)
    args,               \* a call of one of the functions below: its arguments
    ret,                \* ... and what it returned ("none": not called yet)
    video,              \* the video channel between video_send and video_send_loop
    vsync,              \* LAST_VSYNC, the clock and the calls of alvr_wait_for_vsync
    events,             \* the event channel of capi.rs and the calls of alvr_read_event
    notify,             \* the notifiers fired at the select!s of connection_pipeline
    control_sender      \* the Mutex around the control socket sender and its users

vars == <<pc, hs, disc, trusted_discovered_client_id, client_ips, client_ip, control_socket, clients,
          openvr_config, driverCfg, restartRequested, driftPending, resolved_config,
          sleepLeft,
          retryLeft, iterElapsed, pipeDur, loops,
          VIDEO_SENDER, HAPTICS_SENDER, TIME_SYNC_SENDER, stream_guard, hsLog, run,
          args, ret, video, vsync, events, notify, control_sender>>

\* the state of the connection pipeline, and the rest
mainVars == <<pc, hs, disc, trusted_discovered_client_id, client_ips, client_ip, control_socket,
              clients, openvr_config, driverCfg, restartRequested, driftPending,
              resolved_config, sleepLeft, retryLeft, iterElapsed, pipeDur, loops,
              VIDEO_SENDER, HAPTICS_SENDER, TIME_SYNC_SENDER, stream_guard, hsLog, run>>
auxVars == <<args, ret, video, vsync, events, notify, control_sender>>
NoCall == [fn |-> "none"]

\* no video_send_loop yet: VIDEO_SENDER is None, there is no channel
NoVideo == [sender |-> "None", receiver |-> "none", channel |-> <<>>,
            buffer |-> <<>>, offered |-> 0, accepted |-> <<>>, written |-> <<>>]

\* LAST_VSYNC is Instant::now() of its first use; times are in nanoseconds from
\* that instant
NoVsync == [LAST_VSYNC |-> 0, now |-> 0, calls |-> 0, away |-> 0,
            slept |-> 0, timeout |-> 0, due |-> 0, short |-> FALSE, late |-> FALSE]

\* the producers of AlvrEvents: the connection task and the dashboard
Producers == {"connection", "dashboard"}
NoEvent == [ty |-> "None", producer |-> "-", k |-> 0]
\* before alvr_initialize: DRIVER_EVENT_SENDER and DRIVER_EVENT_RECEIVER are None
NoEvents == [receiver |-> "None", channel |-> <<>>,
             posted |-> [p \in Producers |-> 0], returned |-> <<>>,
             calls |-> 0, receiving |-> FALSE, timeout |-> 0, blocked |-> 0,
             arrived |-> FALSE,
             result |-> NoEvent]

\* the tasks that lock control_sender while streaming, and the state before
\* the supervisor's select! is polled: nobody holds the Mutex or waits for it
LockUsers == {"keepalive", "time_sync_send", "restart"}
NoControlSender ==
    [owner |-> "none", waiters |-> <<>>,
     at |-> [t \in LockUsers |-> "idle"],
     select |-> "none", aborted |-> FALSE, written |-> <<>>, restartWaited |-> FALSE]

\* no pipeline run yet, no notifier fired
NoNotify == [phase |-> "none", runs |-> 0, fires |-> 0, fired |-> "none",
             heard |-> FALSE, cause |-> "none"]

NoLoops == [l \in LoopNames |-> "none"]

envVars == <<clients, openvr_config, driverCfg, restartRequested, driftPending,
             resolved_config>>
timeVars == <<retryLeft, iterElapsed, pipeDur>>
senderVars == <<VIDEO_SENDER, HAPTICS_SENDER, TIME_SYNC_SENDER>>
connVars == <<hs, disc, trusted_discovered_client_id, client_ips, client_ip, control_socket, hsLog>>

FreshRun == [initCalls |-> 0, deinitCalls |-> 0, startStream |-> FALSE,
             configPacket |-> FALSE, clientConnected |-> FALSE,
             headConnected |-> FALSE, restartingSent |-> FALSE,
             published |-> {}, clientDisconnected |-> 0,
             ack |-> "none", connectScript |-> FALSE, disconnectScript |-> FALSE,
             result |-> "running", cause |-> "none"]

\* ------------------------------------------------------------ client list
\* update_client_list(hostname, AddIfMissing): a missing hostname is added, untrusted
AddIfMissing(cl, h) ==
    IF cl[h] = "absent" THEN [cl EXCEPT ![h] = "untrusted"] ELSE cl

\* the closure given to search_client_loop: the entry of the beacon's hostname
\* after the update, and the auto_trust_clients argument of client_discovery
AcceptsAnyKnown(entry, auto_trust_clients) == entry # "absent"
DiscoveryAccepts(entry, auto_trust_clients) ==
    IF entry # "absent" THEN entry = "trusted" \/ auto_trust_clients ELSE FALSE

\* ----------------------------------------------------- results of a run
HandshakeFailures == {"handshake_recv_info", "handshake_audio_device",
                      "handshake_same_device", "handshake_send_config"}
EndsOk == {"discovery_failed", "clients_updated", "receive_loop", "game_audio_ok",
           "microphone_ok", "keepalive_send", "control_recv", "restart"}
           \cup HandshakeFailures
EndsErr == {"start_stream_send", "unexpected_packet", "stream_ack_recv",
            "stream_connect", "stream_setup_timeout", "build_loops",
            "game_audio_err", "microphone_err", "video_send_err",
            "haptics_send_err", "input_receive_err"}
Causes == EndsOk \cup EndsErr

\* the StrResult connection_pipeline returns on each of its exits
KeepaliveErrorIsErr(cause) ==
    IF cause \in EndsOk \ {"keepalive_send"} THEN "ok" ELSE "err"
DiscoveryErrorIsErr(cause) ==
    IF cause \in EndsOk \ {"discovery_failed"} THEN "ok" ELSE "err"
HandshakeErrorIsErr(cause) ==
    IF cause \in EndsOk \ HandshakeFailures THEN "ok" ELSE "err"
PipelineResult(cause) == IF cause \in EndsOk THEN "ok" ELSE "err"

\* ------------------------------------------------------ streaming loops
\* the loops whose future can complete: time_sync_send only ends when every
\* sender of its channel is gone, and TIME_SYNC_SENDER keeps one
CanFinish == Spawned \ {"time_sync_send"}

\* what a finished spawned loop hands to the select!
LoopCauses(l) ==
    CASE l = "receive_loop" -> {"receive_loop"}
      [] l = "game_audio" -> {"game_audio_ok", "game_audio_err"}
      [] l = "microphone" -> {"microphone_ok", "microphone_err"}
      [] l = "video_send" -> {"video_send_err"}
      [] l = "haptics_send" -> {"haptics_send_err"}
      [] l = "input_receive" -> {"input_receive_err"}
      [] OTHER -> {}

\* the future of a disabled game_audio / microphone loop: future::pending()
DisabledReturnsOk == "finished"
DisabledLoop == "pending"

\* spawn_cancelable: dropping the handle aborts the task
AbortOnDrop(ls) == {l \in Spawned : ls[l] = "running"}

\* the futures of the select! are dropped when it completes: the loops on the
\* pipeline's task are gone at once, a spawned task that still runs is aborted
LoopsOutliveGuard(ls) == ls
SelectFuturesDropped(ls) ==
    [l \in LoopNames |->
        IF ls[l] = "aborting" THEN "aborting"
        ELSE IF ls[l] = "running" /\ l \in Spawned
             THEN (IF l \in AbortOnDrop(ls) THEN "aborting" ELSE "running")
             ELSE "none"]

\* the senders of the ending session that exist: a stream-channel sender is owned
\* by its loop's task until the task is gone; the channel senders stay in the statics
StreamSenderOwners == {"video_send", "haptics_send", "game_audio"}
StreamSender(l) ==
    CASE l = "video_send" -> "VIDEO" [] l = "haptics_send" -> "HAPTICS"
      [] l = "game_audio" -> "AUDIO"
AliveSenders(ls, r) ==
    {StreamSender(l) : l \in {o \in StreamSenderOwners :
                                ls[o] \in {"running", "finished", "aborting"}}}
    \cup r.published

\* impl Drop for StreamCloseGuard
GuardDropForgets(r) == r
GuardDropRunsScriptOnly(r) == [r EXCEPT !.disconnectScript = TRUE]
StreamCloseGuardDrop(r) ==
    [r EXCEPT !.deinitCalls = @ + 1, !.disconnectScript = TRUE]


\* --------------------------------------------------------------- Init
\* alvr_initialize has spawned connection_lifecycle_loop; the driver was loaded
\* with the persisted OpenvrConfig; the client list is whatever was persisted
Init ==
    /\ pc = "init"
    /\ hs = "none" /\ disc = "off" /\ trusted_discovered_client_id = NoneVal
    /\ client_ips = {} /\ client_ip = NoneVal /\ control_socket = "closed" /\ hsLog = <<>>
    /\ clients \in [Hostnames -> {"absent", "untrusted", "trusted"}]
    /\ openvr_config \in Configs
    /\ driverCfg = openvr_config
    /\ restartRequested = FALSE /\ driftPending = FALSE
    /\ resolved_config = NoneVal
    /\ sleepLeft = 0 /\ retryLeft = 0 /\ iterElapsed = 0 /\ pipeDur = 0
    /\ loops = NoLoops
    /\ VIDEO_SENDER = "None" /\ HAPTICS_SENDER = "None" /\ TIME_SYNC_SENDER = "None"
    /\ stream_guard = FALSE
    /\ run = FreshRun
    /\ args = NoCall /\ ret = NoCall /\ video = NoVideo /\ vsync = NoVsync /\ events = NoEvents /\ notify = NoNotify /\ control_sender = NoControlSender

\* ------------------------------------------------------------------ time
Tick ==
    /\ pc \notin {"init", "down"}
    /\ sleepLeft' = IF sleepLeft > TickMs THEN sleepLeft - TickMs ELSE 0
    /\ retryLeft' = IF retryLeft > TickMs THEN retryLeft - TickMs ELSE 0
    /\ iterElapsed' = IF iterElapsed + TickMs < MaxDur + CLEANUP_PAUSE
                      THEN iterElapsed + TickMs ELSE MaxDur + CLEANUP_PAUSE
    /\ pipeDur' = IF pc = "returned" THEN pipeDur
                  ELSE IF pipeDur + TickMs < MaxDur THEN pipeDur + TickMs ELSE MaxDur
    /\ UNCHANGED <<pc, connVars, envVars, loops, senderVars, stream_guard, run>>
    /\ UNCHANGED auxVars

\* client_handshake: `let client_ips = if let Some(id) = trusted_discovered_client_id
\* { vec![id.ip] } else { <the manual_ips of every persisted client> }`
ManualIpsAlways(tdc, ips) == ips
HandshakeTargets(tdc, ips) == IF tdc # NoneVal THEN {tdc} ELSE ips

\* ------------------------------------------------- connection_pipeline
\* the top of the loop of connection_pipeline: client_discovery_config is read
\* (cfg), try_connection_future is built and the select! awaits it.  Without a
\* discovered client the handshake goes to the manual_ips of the persisted clients.
TryConnection(tdc, cfg, ips) ==
    /\ pc' = "connect"
    /\ trusted_discovered_client_id' = tdc
    /\ disc' = IF cfg # "off" /\ tdc = NoneVal THEN cfg ELSE "off"
    /\ client_ips' = HandshakeTargets(tdc, ips)
    /\ hs' = "connecting"
    /\ hsLog' = <<>>
    /\ client_ip' = NoneVal /\ control_socket' = "closed"
    /\ sleepLeft' = 0

DiscoveryConfigs == {"off", "auto", "noauto"}
ManualIps == SUBSET {h \in Hostnames : clients[h] # "absent"}

\* connection_pipeline returns (or is dropped): its futures and locals are dropped,
\* the select!'s futures first, the StreamCloseGuard after them
DropPipeline(r) ==
    /\ hs' = "none" /\ disc' = "off" /\ trusted_discovered_client_id' = NoneVal
    /\ client_ips' = {} /\ client_ip' = NoneVal /\ control_socket' = "closed" /\ hsLog' = <<>>
    /\ loops' = SelectFuturesDropped(loops)
    /\ run' = IF stream_guard THEN StreamCloseGuardDrop(r) ELSE r
    /\ stream_guard' = FALSE

\* show_err(connection_pipeline().await), then time::sleep(CLEANUP_PAUSE)
PipelineReturn(cause, r) ==
    /\ pc' = "returned"
    /\ DropPipeline([r EXCEPT !.result = PipelineResult(cause), !.cause = cause])
    /\ sleepLeft' = CLEANUP_PAUSE
    /\ UNCHANGED <<timeVars, senderVars>>

\* tokio::join! of the pipeline half and the RETRY_CONNECT_MIN_INTERVAL sleep
EitherHalfDone == sleepLeft = 0 \/ retryLeft = 0
JoinReady == sleepLeft = 0 /\ retryLeft = 0

\* the CLEANUP_PAUSE is what the code allows the aborted tasks to shut down in
\* ("let any running task or socket shutdown"): a new iteration finds none left
TasksShutDown == \A l \in LoopNames : loops[l] = "none"

\* loop { join!(...) }: the next iteration starts a pipeline run
LifecycleIterate(cfg, ips) ==
    /\ \/ pc = "init"
       \/ pc = "returned" /\ JoinReady /\ TasksShutDown
    /\ TryConnection(NoneVal, cfg, ips)
    /\ retryLeft' = RETRY_CONNECT_MIN_INTERVAL
    /\ iterElapsed' = 0
    /\ pipeDur' = 0
    /\ run' = FreshRun
    /\ UNCHANGED <<envVars, loops, senderVars, stream_guard>>
    /\ UNCHANGED auxVars

\* a beacon of hostname h reaches search_client_loop
Beacon(h) ==
    /\ pc = "connect" /\ disc # "off"
    /\ clients' = AddIfMissing(clients, h)
    /\ IF DiscoveryAccepts(clients'[h], disc = "auto")
         THEN \* Either::Left(Ok(client_ip)): the handshake future is dropped
              /\ trusted_discovered_client_id' = h
              /\ pc' = "reloop_pause"
              /\ sleepLeft' = CLEANUP_PAUSE
              /\ hs' = "none" /\ disc' = "off" /\ hsLog' = <<>>
              /\ client_ips' = {} /\ client_ip' = NoneVal /\ control_socket' = "closed"
         ELSE UNCHANGED <<pc, sleepLeft, connVars>>
    /\ UNCHANGED <<openvr_config, driverCfg, restartRequested, driftPending,
                   resolved_config, timeVars, loops, senderVars, stream_guard, run>>
    /\ UNCHANGED auxVars

\* time::sleep(CLEANUP_PAUSE) at the end of the loop body is over: the next
\* handshake of the run starts
PipelineReloop(cfg, ips) ==
    /\ pc = "reloop_pause" /\ sleepLeft = 0
    /\ TryConnection(trusted_discovered_client_id, cfg, ips)
    /\ run' = [run EXCEPT !.configPacket = FALSE, !.restartingSent = FALSE]
    /\ UNCHANGED <<envVars, timeVars, loops, senderVars, stream_guard>>
    /\ UNCHANGED auxVars

\* Either::Left(Err(e)): search_client_loop failed
DiscoveryFails ==
    /\ pc = "connect" /\ disc # "off"
    /\ PipelineReturn("discovery_failed", run)
    /\ UNCHANGED envVars
    /\ UNCHANGED auxVars

\* the notifiers and the select! that has an arm for each: the select! of the
\* discovery/handshake race awaits CLIENTS_UPDATED_NOTIFIER.notified() only, the
\* select! of the streaming supervisor RESTART_NOTIFIER.notified() only
Notifiers == {"CLIENTS_UPDATED", "RESTART"}
SelectPhases == {"connect", "streaming"}
ListensToBoth(phase, notifier) == TRUE
Listens(phase, notifier) ==
    \/ phase = "connect" /\ notifier = "CLIENTS_UPDATED"
    \/ phase = "streaming" /\ notifier = "RESTART"

\* CLIENTS_UPDATED_NOTIFIER.notified() completes in the select!
ClientsUpdated ==
    /\ pc \in SelectPhases /\ Listens(pc, "CLIENTS_UPDATED")
    /\ PipelineReturn("clients_updated", run)
    /\ UNCHANGED envVars
    /\ UNCHANGED auxVars


\* ----------------------------------------------------- client_handshake
\* ProtoControlSocket::connect_to failed: sleep CONTROL_CONNECT_RETRY_PAUSE
HandshakeConnectFails ==
    /\ pc = "connect" /\ hs = "connecting"
    /\ hs' = "retry_pause"
    /\ sleepLeft' = CONTROL_CONNECT_RETRY_PAUSE
    /\ UNCHANGED <<pc, disc, trusted_discovered_client_id, client_ips, client_ip, control_socket, hsLog,
                   envVars, timeVars, loops, senderVars, stream_guard, run>>
    /\ UNCHANGED auxVars

HandshakeRetry ==
    /\ pc = "connect" /\ hs = "retry_pause" /\ sleepLeft = 0
    /\ hs' = "connecting"
    /\ UNCHANGED <<pc, sleepLeft, disc, trusted_discovered_client_id, client_ips,
                   client_ip, control_socket, hsLog, envVars, timeVars, loops, senderVars,
                   stream_guard, run>>
    /\ UNCHANGED auxVars

\* connect_to(PeerType::AnyClient(client_ips)) returned a socket to ip
HandshakeConnected(ip) ==
    /\ pc = "connect" /\ hs = "connecting"
    /\ ip \in client_ips
    /\ hs' = "recv_info"
    /\ client_ip' = ip /\ control_socket' = "open"
    /\ UNCHANGED <<pc, sleepLeft, disc, trusted_discovered_client_id, client_ips, hsLog,
                   envVars, timeVars, loops, senderVars, stream_guard, run>>
    /\ UNCHANGED auxVars

\* settings.audio as the handshake reads it: game audio / microphone enabled,
\* both on the same device, and which of the device calls fails
DeviceErrors == {"none", "new", "sample_rate"}
AudioCheck(game_audio, microphone, same_device, deviceError) ==
    IF game_audio
    THEN IF deviceError = "new" THEN "handshake_audio_device"
         ELSE IF microphone /\ same_device THEN "handshake_same_device"
         ELSE IF deviceError = "sample_rate" THEN "handshake_audio_device"
         ELSE "ok"
    ELSE "ok"

\* proto_socket.recv::<(HeadsetInfoPacket, IpAddr)>() returned; the resolutions,
\* the refresh rate and the audio devices are resolved up to the send of the
\* ClientConfigPacket
HandshakeRecvInfo(recvOk, game_audio, microphone, same_device, deviceError) ==
    /\ pc = "connect" /\ hs = "recv_info"
    /\ LET outcome == IF recvOk
                      THEN AudioCheck(game_audio, microphone, same_device, deviceError)
                      ELSE "handshake_recv_info"
       IN IF outcome = "ok"
          THEN /\ hs' = "send_config"
               /\ UNCHANGED <<pc, sleepLeft, disc, trusted_discovered_client_id,
                              client_ips, client_ip, control_socket, hsLog, timeVars, loops,
                              senderVars, stream_guard, run>>
          ELSE \* Either::Right(Err(e)): warn!, return Ok(())
               PipelineReturn(outcome, run)
    /\ UNCHANGED envVars
    /\ UNCHANGED auxVars

\* `if SESSION_MANAGER.lock().get().openvr_config != new_openvr_config`
AlwaysDiffers(persisted, new_openvr_config) == TRUE
ConfigDiffers(persisted, new_openvr_config) == persisted # new_openvr_config

\* proto_socket.send(&client_config) returned; new_openvr_config is built and
\* compared with the persisted one
HandshakeSendConfig(sendOk, new_openvr_config) ==
    /\ pc = "connect" /\ hs = "send_config"
    /\ IF ~sendOk
       THEN PipelineReturn("handshake_send_config", run) /\ UNCHANGED envVars
       ELSE IF ConfigDiffers(openvr_config, new_openvr_config)
       THEN \* persist, then await the send of Restarting
            /\ openvr_config' = new_openvr_config
            /\ resolved_config' = new_openvr_config
            /\ driftPending' = TRUE
            /\ hs' = "send_restarting"
            /\ hsLog' = <<"persist">>
            /\ run' = [run EXCEPT !.configPacket = TRUE]
            /\ UNCHANGED <<pc, sleepLeft, disc, trusted_discovered_client_id,
                           client_ips, client_ip, control_socket, clients, driverCfg,
                           restartRequested, timeVars, loops, senderVars,
                           stream_guard>>
       ELSE \* Ok(ConnectionInfo): break connection_info
            /\ pc' = "start_stream"
            /\ hs' = "none" /\ disc' = "off" /\ client_ips' = {}
            /\ run' = [run EXCEPT !.configPacket = TRUE]
            /\ resolved_config' = new_openvr_config
            /\ UNCHANGED <<sleepLeft, trusted_discovered_client_id, client_ip,
                           control_socket, hsLog, clients, openvr_config, driverCfg,
                           restartRequested, driftPending, timeVars, loops,
                           senderVars, stream_guard>>
    /\ UNCHANGED auxVars

\* control_sender.send(&Restarting).await.ok(); notify_restart_driver();
\* future::pending().await
ParksOnlyIfSent(sendOk) == IF sendOk THEN "parked" ELSE "err"
AfterRestartingSend(sendOk) == "parked"

HandshakeRestartingSendDone(sendOk) ==
    /\ pc = "connect" /\ hs = "send_restarting"
    /\ IF AfterRestartingSend(sendOk) = "parked"
       THEN /\ hsLog' = hsLog \o <<IF sendOk THEN "send_ok" ELSE "send_err",
                                  "notify_restart_driver">>
            /\ restartRequested' = TRUE
            /\ hs' = "parked"
            /\ run' = [run EXCEPT !.restartingSent = sendOk]
            /\ UNCHANGED <<pc, sleepLeft, disc, trusted_discovered_client_id,
                           client_ips, client_ip, control_socket, clients,
                           openvr_config, driverCfg, driftPending, resolved_config,
                           timeVars, loops, senderVars, stream_guard>>
       ELSE PipelineReturn("handshake_send_config", run) /\ UNCHANGED envVars
    /\ UNCHANGED auxVars


\* --------------------------------------------------------- stream setup
\* control_sender.lock().await.send(&StartStream).await?
SendStartStream(sendOk) ==
    /\ pc = "start_stream"
    /\ IF sendOk
       THEN /\ pc' = "wait_ready"
            /\ run' = [run EXCEPT !.startStream = TRUE]
            /\ UNCHANGED <<sleepLeft, connVars, timeVars, loops, senderVars,
                           stream_guard>>
       ELSE PipelineReturn("start_stream_send", run)
    /\ UNCHANGED envVars
    /\ UNCHANGED auxVars

\* match control_receiver.recv().await; then the select! of connect_to_client
\* and time::sleep(5 s) is entered
StreamAcks == {"StreamReady", "other", "error"}
\* the arms of the match: Ok(StreamReady) => {}, Ok(_) and Err(e) => return
AnyPacketAcks(packet) ==
    IF packet = "error" THEN "stream_ack_recv" ELSE "go_on"
StreamAckArm(packet) ==
    CASE packet = "StreamReady" -> "go_on"
      [] packet = "other" -> "unexpected_packet"
      [] packet = "error" -> "stream_ack_recv"
RecvStreamAck(packet) ==
    /\ pc = "wait_ready"
    /\ IF StreamAckArm(packet) = "go_on"
       THEN /\ pc' = "stream_connect"
            /\ sleepLeft' = STREAM_SETUP_TIMEOUT
            /\ run' = [run EXCEPT !.ack = packet]
            /\ UNCHANGED <<connVars, timeVars, loops, senderVars, stream_guard>>
       ELSE PipelineReturn(StreamAckArm(packet), [run EXCEPT !.ack = packet])
    /\ UNCHANGED envVars
    /\ UNCHANGED auxVars

\* StreamSocketBuilder::connect_to_client completed first.  On Ok: ClientConnected
\* is logged, the connect script (if one is set) is spawned, the initial driver
\* events are posted, InitializeStreaming is called
\* and the StreamCloseGuard is created; the loops are built next.
StreamSocketConnected(connectOk) ==
    /\ pc = "stream_connect"
    /\ IF connectOk
       THEN /\ pc' = "build_loops"
            /\ sleepLeft' = 0
            /\ run' = [run EXCEPT !.clientConnected = TRUE,
                                  !.connectScript = TRUE,
                                  !.headConnected = TRUE,
                                  !.initCalls = @ + 1]
            /\ stream_guard' = TRUE
            /\ client_ip' = NoneVal /\ control_socket' = control_socket
            /\ UNCHANGED <<hs, disc, trusted_discovered_client_id, client_ips, hsLog,
                           timeVars, loops, senderVars>>
       ELSE PipelineReturn("stream_connect", run)
    /\ UNCHANGED envVars
    /\ UNCHANGED auxVars

\* time::sleep(Duration::from_secs(5)) completed first
StreamSetupTimeout ==
    /\ pc = "stream_connect" /\ sleepLeft = 0
    /\ PipelineReturn("stream_setup_timeout", run)
    /\ UNCHANGED envVars
    /\ UNCHANGED auxVars

\* the loop futures are built (a failing `?` returns early) and the select! polls
\* them: the spawned tasks start, publish their channel senders, and keepalive
\* sends at once.  settings.audio decides which audio loops are real.
BuildLoops(buildOk, game_audio, microphone) ==
    /\ pc = "build_loops"
    /\ IF buildOk
       THEN /\ pc' = "streaming"
            /\ loops' = [l \in LoopNames |->
                           IF \/ l = "game_audio" /\ ~game_audio
                              \/ l = "microphone" /\ ~microphone
                           THEN DisabledLoop ELSE "running"]
            /\ VIDEO_SENDER' = "Some"
            /\ HAPTICS_SENDER' = "Some"
            /\ TIME_SYNC_SENDER' = "Some"
            /\ run' = [run EXCEPT !.published = {"VIDEO_SENDER", "HAPTICS_SENDER",
                                                  "TIME_SYNC_SENDER"}]
            /\ sleepLeft' = 0
            /\ UNCHANGED <<connVars, timeVars, stream_guard>>
       ELSE PipelineReturn("build_loops", run)
    /\ UNCHANGED envVars
    /\ UNCHANGED auxVars

\* ------------------------------------------------------------ streaming
\* the future of a spawned loop completes
SpawnedLoopFinishes(l) ==
    /\ l \in CanFinish
    /\ loops[l] = "running"
    /\ Cardinality({x \in LoopNames : loops[x] = "finished"}) < MaxFinished
    /\ loops' = [loops EXCEPT ![l] = "finished"]
    /\ UNCHANGED <<pc, sleepLeft, connVars, envVars, timeVars, senderVars,
                   stream_guard, run>>
    /\ UNCHANGED auxVars

\* the places that log ClientDisconnected whose failure is there when the
\* select! is polled: the send of keepalive_loop and the recv of control_loop on
\* a dead control socket, the completed receive_loop
FailuresReady ==
    {c \in {"keepalive_send", "control_recv"} :
        /\ control_socket = "dead"
        /\ c = "keepalive_send" => sleepLeft = 0}
      \cup {c \in {"receive_loop"} : loops["receive_loop"] = "finished"}

\* the select! returns at the first branch that is Ready and drops the other
\* futures unpolled: of the logs that are due only the winner's is written
EveryReadyArmLogs(winner, ready) == Cardinality(ready \cup {winner})
SelectLogs(winner, ready) == Cardinality({winner})

\* the select! finds the handle of a completed spawned loop ready; the arm of
\* receive_loop logs ClientDisconnected
SelectSpawned(l, cause) ==
    /\ pc = "streaming"
    /\ loops[l] = "finished"
    /\ cause \in LoopCauses(l)
    /\ PipelineReturn(cause, IF l = "receive_loop"
                             THEN [run EXCEPT !.clientDisconnected =
                                                  @ + SelectLogs(cause, FailuresReady)]
                             ELSE run)
    /\ UNCHANGED envVars
    /\ UNCHANGED auxVars

\* keepalive_loop: what the loop does when the send of KeepAlive returned Err
KeepaliveRetries == "continue"
KeepaliveOnError == "break"

\* keepalive_loop: send KeepAlive (a dead socket fails the send); on Ok sleep
\* NETWORK_KEEPALIVE_INTERVAL, on Err log ClientDisconnected and break Ok(())
KeepaliveSend(sendOk) ==
    /\ pc = "streaming" /\ loops["keepalive"] = "running" /\ sleepLeft = 0
    /\ sendOk => control_socket = "open"
    /\ IF sendOk \/ KeepaliveOnError = "continue"
       THEN /\ sleepLeft' = NETWORK_KEEPALIVE_INTERVAL
            /\ UNCHANGED <<pc, connVars, timeVars, loops, senderVars, stream_guard, run>>
       ELSE PipelineReturn("keepalive_send",
                           [run EXCEPT !.clientDisconnected =
                                          @ + SelectLogs("keepalive_send", FailuresReady)])
    /\ UNCHANGED envVars
    /\ UNCHANGED auxVars

\* control_loop: control_receiver.recv() returned Err: ClientDisconnected is logged
ControlRecvError ==
    /\ pc = "streaming" /\ loops["control_loop"] = "running"
    /\ PipelineReturn("control_recv",
                      [run EXCEPT !.clientDisconnected =
                                     @ + SelectLogs("control_recv", FailuresReady)])
    /\ UNCHANGED envVars
    /\ UNCHANGED auxVars

\* _stream_guard is a local of connection_pipeline: it lives through the arm of
\* RESTART_NOTIFIER and is dropped when the function returns
GuardDroppedAtSelect(guard) == FALSE
InRestartBranch(guard) == guard

\* RESTART_NOTIFIER.notified() completes in the select!: the other futures are
\* dropped, the branch awaits the lock and the send of Restarting
RestartNotified ==
    /\ pc \in SelectPhases /\ Listens(pc, "RESTART")
    /\ pc' = "restart_branch"
    /\ loops' = SelectFuturesDropped(loops)
    /\ sleepLeft' = 0
    /\ stream_guard' = InRestartBranch(stream_guard)
    /\ run' = IF stream_guard /\ ~stream_guard' THEN StreamCloseGuardDrop(run) ELSE run
    /\ UNCHANGED <<connVars, envVars, timeVars, senderVars>>
    /\ UNCHANGED auxVars

RestartBranchSent(sendOk) ==
    /\ pc = "restart_branch"
    /\ sendOk => control_socket = "open"
    /\ PipelineReturn("restart", [run EXCEPT !.restartingSent = sendOk])
    /\ UNCHANGED envVars
    /\ UNCHANGED auxVars

\* the control socket dies while streaming (the peer is gone, the link is cut)
ControlSocketKilled ==
    /\ pc = "streaming" /\ control_socket = "open"
    /\ control_socket' = "dead"
    /\ UNCHANGED <<pc, sleepLeft, hs, disc, trusted_discovered_client_id, client_ips,
                   client_ip, hsLog, envVars, timeVars, loops, senderVars,
                   stream_guard, run>>
    /\ UNCHANGED auxVars

\* the runtime drops the aborted tasks (one step for all of them: nothing
\* distinguishes which of them went first)
AbortedTasksDropped ==
    /\ \E l \in Spawned : loops[l] = "aborting"
    /\ loops' = [l \in LoopNames |-> IF loops[l] = "aborting" THEN "none" ELSE loops[l]]
    /\ UNCHANGED <<pc, sleepLeft, connVars, envVars, timeVars, senderVars,
                   stream_guard, run>>
    /\ UNCHANGED auxVars

\* ---------------------------------------------------------- environment
\* the client list is edited from outside (Trust, Untrust, Remove)
ClientListActions == {"Trust", "Untrust", "Remove"}
UpdateClientList(h, action) ==
    /\ pc # "down"
    /\ clients[h] # "absent"
    /\ clients' = [clients EXCEPT ![h] =
                     CASE action = "Trust" -> "trusted"
                       [] action = "Untrust" -> "untrusted"
                       [] action = "Remove" -> "absent"]
    /\ clients' # clients
    /\ UNCHANGED <<pc, sleepLeft, connVars, openvr_config, driverCfg,
                   restartRequested, driftPending, resolved_config, timeVars, loops,
                   senderVars, stream_guard, run>>
    /\ UNCHANGED auxVars

\* SHUTDOWN_NOTIFIER.notified() wins the select! of alvr_initialize:
\* connection_lifecycle_loop is dropped wherever it is
Shutdown ==
    /\ pc # "down"
    /\ pc' = "down"
    /\ DropPipeline(IF run.result = "running" /\ pc # "init"
                    THEN [run EXCEPT !.result = "cancelled"] ELSE run)
    /\ sleepLeft' = 0 /\ retryLeft' = 0 /\ iterElapsed' = 0 /\ pipeDur' = 0
    /\ UNCHANGED <<envVars, senderVars>>
    /\ UNCHANGED auxVars

\* the driver is loaded again: alvr_initialize in a new process, which reads the
\* persisted session
alvr_initialize ==
    /\ pc = "down"
    /\ pc' = "init"
    /\ driverCfg' = openvr_config
    /\ restartRequested' = FALSE /\ driftPending' = FALSE
    /\ loops' = NoLoops
    /\ VIDEO_SENDER' = "None" /\ HAPTICS_SENDER' = "None" /\ TIME_SYNC_SENDER' = "None"
    /\ run' = FreshRun
    /\ UNCHANGED <<sleepLeft, connVars, clients, openvr_config, resolved_config,
                   timeVars, stream_guard>>
    /\ UNCHANGED auxVars

Next ==
    \/ Tick
    \/ \E cfg \in DiscoveryConfigs, ips \in ManualIps : LifecycleIterate(cfg, ips)
    \/ \E h \in Hostnames : Beacon(h)
    \/ \E cfg \in DiscoveryConfigs, ips \in ManualIps : PipelineReloop(cfg, ips)
    \/ DiscoveryFails
    \/ ClientsUpdated
    \/ HandshakeConnectFails
    \/ HandshakeRetry
    \/ \E ip \in Hostnames : HandshakeConnected(ip)
    \/ \E recvOk, ga, mic, same \in BOOLEAN, de \in DeviceErrors :
          HandshakeRecvInfo(recvOk, ga, mic, same, de)
    \/ \E sendOk \in BOOLEAN, new \in Configs : HandshakeSendConfig(sendOk, new)
    \/ \E sendOk \in BOOLEAN : HandshakeRestartingSendDone(sendOk)
    \/ \E sendOk \in BOOLEAN : SendStartStream(sendOk)
    \/ \E packet \in StreamAcks : RecvStreamAck(packet)
    \/ \E connectOk \in BOOLEAN : StreamSocketConnected(connectOk)
    \/ StreamSetupTimeout
    \/ \E buildOk, ga, mic \in BOOLEAN : BuildLoops(buildOk, ga, mic)
    \/ \E l \in Spawned : SpawnedLoopFinishes(l)
    \/ \E l \in Spawned, cause \in Causes : SelectSpawned(l, cause)
    \/ \E sendOk \in BOOLEAN : KeepaliveSend(sendOk)
    \/ ControlRecvError
    \/ RestartNotified
    \/ \E sendOk \in BOOLEAN : RestartBranchSent(sendOk)
    \/ ControlSocketKilled
    \/ AbortedTasksDropped
    \/ \E h \in Hostnames, action \in ClientListActions : UpdateClientList(h, action)
    \/ Shutdown
    \/ alvr_initialize

Spec == Init /\ [][Next]_vars


\* the runtime polls what is ready: an aborted task is dropped, the select! is
\* polled again once the handle of a completed loop is ready, keepalive_loop runs
\* when its sleep is over, the lifecycle loop goes on when its join! is complete;
\* and time passes
FairSpec ==
    /\ Spec
    /\ WF_vars(AbortedTasksDropped)
    /\ WF_vars(\E l \in Spawned, cause \in Causes : SelectSpawned(l, cause))
    /\ WF_vars(Tick)
    /\ WF_vars(\E sendOk \in BOOLEAN : KeepaliveSend(sendOk))
    /\ WF_vars(\E cfg \in DiscoveryConfigs, ips \in ManualIps : LifecycleIterate(cfg, ips))

\* ======================================================================
\* Claims
\* ======================================================================

\* C1: every exit of the pipeline after InitializeStreaming was called (a loop
\* ending, an early error while the loops are built, RESTART_NOTIFIER, the
\* pipeline being dropped) calls DeinitializeStreaming exactly once, and a run
\* that did not call InitializeStreaming never calls it.
C1_DeinitExactlyOnce ==
    /\ run.initCalls \in {0, 1}
    /\ run.deinitCalls <= run.initCalls
    /\ pc \in {"returned", "down"} => run.deinitCalls = run.initCalls
    /\ stream_guard <=> (run.initCalls = 1 /\ run.deinitCalls = 0)
C1_Witness ==
    pc = "returned" /\ run.cause = "build_loops" /\ run.initCalls = 1
    /\ run.deinitCalls = 1

\* C2 (as claimed): once a handshake has found the resolved OpenvrConfig different
\* from the persisted one, no StartStream is sent and InitializeStreaming is not
\* called before the driver has been started again.
C2_NoStreamBeforeRestart ==
    driftPending => (~run.startStream /\ run.initCalls = 0)

\* C3: on config drift the handshake persists the new config, then sends
\* Restarting, then requests the driver restart, then parks; it returns neither
\* Ok nor Err from there, and a failed send of Restarting changes none of this.
C3_DriftOrder ==
    [][/\ (hs' = "send_restarting" /\ hs # "send_restarting")
            => /\ hsLog' = <<"persist">>
               /\ openvr_config' # openvr_config
               /\ restartRequested' = restartRequested
               /\ ~run'.restartingSent
       /\ (hs' = "parked" /\ hs # "parked")
            => /\ hs = "send_restarting"
               /\ hsLog' \in {<<"persist", "send_ok", "notify_restart_driver">>,
                              <<"persist", "send_err", "notify_restart_driver">>}
               /\ run'.restartingSent = (hsLog'[2] = "send_ok")
               /\ restartRequested'
               /\ openvr_config' = openvr_config
       /\ hs = "send_restarting" => hs' \in {"send_restarting", "parked", "none"}
       /\ hs = "parked" => hs' \in {"parked", "none"}
       /\ hs \in {"send_restarting", "parked"}
            => /\ pc' # "start_stream"
               /\ pc' = "returned" => run'.cause \notin HandshakeFailures
      ]_vars
C3_Witness ==
    hs = "parked" /\ hsLog = <<"persist", "send_err", "notify_restart_driver">>
    /\ restartRequested

\* C4: the supervisor is a select-any: once a loop has completed the pipeline
\* leaves the select!, after it no loop of the set is left running (each is gone
\* or aborted), every aborted loop stops, and a disabled game_audio or microphone
\* loop never completes (a loop only completes from running).
C4_SelectAny ==
    /\ [](pc \notin {"streaming"}
            => \A l \in LoopNames : loops[l] \in {"none", "aborting"})
    /\ [][\A l \in LoopNames :
            loops'[l] = "finished" => loops[l] \in {"running", "finished"}]_vars
    /\ (pc = "streaming" /\ \E l \in Spawned : loops[l] = "finished")
          ~> (pc # "streaming")
    /\ (\E l \in Spawned : loops[l] = "aborting")
          ~> (\A l \in Spawned : loops[l] = "none")
C4_Witness ==
    pc = "returned" /\ run.cause = "video_send_err"
    /\ loops["game_audio"] = "none" /\ loops["input_receive"] = "aborting"

\* C5 (as claimed): when DeinitializeStreaming runs, every sender of the ending
\* session has been dropped.
C5_SendersDroppedBeforeDeinit ==
    [][run'.deinitCalls > run.deinitCalls => AliveSenders(loops', run') = {}]_vars

\* C5 (amended): when DeinitializeStreaming runs, the select! has dropped its
\* futures (no loop of the set is left running: each is gone or aborted); the
\* senders in VIDEO_SENDER, HAPTICS_SENDER, TIME_SYNC_SENDER stay where they are.
C5_DeinitAfterFuturesDropped ==
    [][run'.deinitCalls > run.deinitCalls
         => /\ \A l \in LoopNames : loops'[l] \in {"none", "aborting"}
            /\ <<VIDEO_SENDER, HAPTICS_SENDER, TIME_SYNC_SENDER>>'
                 = <<VIDEO_SENDER, HAPTICS_SENDER, TIME_SYNC_SENDER>>
            /\ run.published # {} => AliveSenders(loops', run') # {}]_vars
C5_Witness ==
    pc = "returned" /\ run.deinitCalls = 1 /\ VIDEO_SENDER = "Some"
    /\ run.published # {} /\ loops["video_send"] = "aborting"

\* C6: discovery returns a ClientIdentity only for a beacon whose hostname, after
\* AddIfMissing, has an entry that is trusted, or with auto_trust_clients on; a
\* hostname that was unknown is never accepted with auto_trust_clients off.
C6_DiscoveryAcceptsTrusted ==
    [][(trusted_discovered_client_id = NoneVal
          /\ trusted_discovered_client_id' # NoneVal)
         => /\ clients'[trusted_discovered_client_id'] # "absent"
            /\ \/ clients'[trusted_discovered_client_id'] = "trusted"
               \/ disc = "auto"
            /\ ~(clients[trusted_discovered_client_id'] = "absent" /\ disc # "auto")
      ]_vars
C6_Witness ==
    pc = "reloop_pause" /\ trusted_discovered_client_id # NoneVal
    /\ clients[trusted_discovered_client_id] = "untrusted"

\* C7 (as claimed): every soft error makes connection_pipeline return Ok.
SoftErrors == HandshakeFailures \cup {"stream_setup_timeout", "keepalive_send",
                                      "control_recv", "unexpected_packet"}
C7_SoftErrorsReturnOk ==
    (pc = "returned" /\ run.cause \in SoftErrors) => run.result = "ok"

\* C7 (amended): a handshake failure, a keepalive send error and a control
\* receive error after the connection is established make connection_pipeline
\* return Ok; the stream socket setup timeout and a non-StreamReady packet after
\* StartStream make it return Err (which goes to show_err); in each case the
\* lifecycle loop goes on to its CLEANUP_PAUSE.
C7_SoftErrorsResult ==
    (pc = "returned" /\ run.cause \in SoftErrors)
      => /\ run.result = IF run.cause \in {"stream_setup_timeout", "unexpected_packet"}
                         THEN "err" ELSE "ok"
         /\ sleepLeft <= CLEANUP_PAUSE
C7_Witness ==
    pc = "returned" /\ run.cause = "stream_setup_timeout" /\ run.result = "err"

\* C8 (as claimed): game audio and microphone on the same device end the attempt
\* with a hard error, with no ClientConfigPacket, no StartStream and no
\* DeviceConnected(HEAD_ID).
C8_SameDeviceIsHard ==
    run.cause = "handshake_same_device"
      => /\ run.result = "err"
         /\ ~run.configPacket /\ ~run.startStream /\ ~run.headConnected

\* C8 (amended): game audio and microphone on the same device make the handshake
\* fail, which the pipeline treats like every handshake failure: it returns Ok
\* (a warning, nothing for show_err); no ClientConfigPacket, no StartStream, no
\* DeviceConnected(HEAD_ID), no InitializeStreaming.
C8_SameDeviceIsSoft ==
    run.cause = "handshake_same_device"
      => /\ run.result = "ok"
         /\ ~run.configPacket /\ ~run.startStream /\ ~run.headConnected
         /\ run.initCalls = 0
C8_Witness ==
    pc = "returned" /\ run.cause = "handshake_same_device"

\* C9 (as claimed): after RESTART_NOTIFIER fired during streaming, or after a
\* handshake detected config drift, no new connection attempt starts before the
\* driver has been started again.
C9_NoRetryAfterFatal ==
    [][(driftPending \/ run.cause = "restart")
         => ~(pc' = "connect" /\ pc # "connect")]_vars

\* C10: an iteration of connection_lifecycle_loop lasts at least
\* max(pipeline duration + CLEANUP_PAUSE, RETRY_CONNECT_MIN_INTERVAL).
C10_IterationDuration ==
    [][(pc = "returned" /\ pc' = "connect")
         => /\ iterElapsed >= pipeDur + CLEANUP_PAUSE
            /\ iterElapsed >= RETRY_CONNECT_MIN_INTERVAL
      ]_vars
C10_Witness ==
    pc = "connect" /\ iterElapsed = 0 /\ VIDEO_SENDER = "Some"
    /\ retryLeft = RETRY_CONNECT_MIN_INTERVAL


\* ======================================================================
\* Functions of connection.rs and capi.rs, applied to drawn arguments
\* ======================================================================

\* the pipeline has not started
Idle ==
    /\ pc = "init"
    /\ hs = "none" /\ disc = "off" /\ trusted_discovered_client_id = NoneVal
    /\ client_ips = {} /\ client_ip = NoneVal /\ control_socket = "closed"
    /\ hsLog = <<>>
    /\ clients = [h \in Hostnames |-> "absent"]
    /\ openvr_config = "cfg72" /\ driverCfg = "cfg72"
    /\ restartRequested = FALSE /\ driftPending = FALSE
    /\ resolved_config = NoneVal
    /\ sleepLeft = 0 /\ retryLeft = 0 /\ iterElapsed = 0 /\ pipeDur = 0
    /\ loops = NoLoops
    /\ VIDEO_SENDER = "None" /\ HAPTICS_SENDER = "None" /\ TIME_SYNC_SENDER = "None"
    /\ stream_guard = FALSE
    /\ run = FreshRun

\* the function fn is applied to args: ret becomes [fn, out]
Returns(fn, out) ==
    /\ args.fn = fn /\ ret = NoCall
    /\ ret' = [fn |-> fn, out |-> out]
    /\ UNCHANGED <<mainVars, args, video, vsync, events, notify, control_sender>>

\* ------------------------------------------------------------ event bus
\* the places that post an AlvrEvent through DRIVER_EVENT_SENDER, and what each
\* does with the Result of sender.send(..)
SetupPosts == {"DeviceConnected_HEAD", "VideoConfig", "DeviceConnected_LEFT_HAND",
               "DeviceConnected_RIGHT_HAND"}
LoopPosts == {"game_audio_OpenvrProperty", "microphone_OpenvrProperty",
              "ViewsConfig", "DevicePose"}
AllPostsOk(site) == "ok"
OnSendResult(site) == IF site \in SetupPosts THEN "unwrap" ELSE "ok"

\* if let Some(sender) = &*DRIVER_EVENT_SENDER.lock() { sender.send(event)... }:
\* mpsc::Sender::send returns Err exactly when the receiver has been dropped
Post(site, sender, receiver) ==
    IF sender = "None" THEN "skipped"
    ELSE IF receiver = "open" THEN "delivered"
    ELSE IF OnSendResult(site) = "unwrap" THEN "panic"
    ELSE "discarded"

PostInputs == [fn : {"post"}, site : SetupPosts \cup LoopPosts,
               sender : {"None", "Some"}, receiver : {"open", "closed"}]
PostEvent == Returns("post", Post(args.site, args.sender, args.receiver))

\* --------------------------------------------------------- refresh rate
\* rates a headset may offer, and preferred_fps of the settings
MaxRates == 3
RateValues == {60, 72, 80, 90}
PreferredValues == {75, 76, 90}
RateLists == UNION {[1..n -> RateValues] : n \in 0..MaxRates}

Abs(x) == IF x < 0 THEN -x ELSE x
\* f32::MAX is the largest finite f32; here the largest number there is
F32_MAX == 2147483647

\* `if diff < min_diff`
IsCloserOrEqual(diff, min_diff) == diff <= min_diff
IsCloser(diff, min_diff) == diff < min_diff

\* the for loop over headset_info.available_refresh_rates, from element i on
RECURSIVE FpsLoop(_, _, _, _, _)
FpsLoop(available_refresh_rates, preferred_fps, i, best_match, min_diff) ==
    IF i > Len(available_refresh_rates) THEN best_match
    ELSE LET rr == available_refresh_rates[i]
             diff == Abs(rr - preferred_fps)
         IN IF IsCloser(diff, min_diff)
            THEN FpsLoop(available_refresh_rates, preferred_fps, i + 1, rr, diff)
            ELSE FpsLoop(available_refresh_rates, preferred_fps, i + 1,
                         best_match, min_diff)

\* let fps = { let mut best_match = 0_f32; let mut min_diff = f32::MAX; ... }
Fps(available_refresh_rates, preferred_fps) ==
    FpsLoop(available_refresh_rates, preferred_fps, 1, 0, F32_MAX)

FpsInputs == [fn : {"fps"}, available_refresh_rates : RateLists,
              preferred_fps : PreferredValues]
ResolveFps == Returns("fps", Fps(args.available_refresh_rates, args.preferred_fps))

\* ---- the eye resolutions of client_handshake and align32
\* A number n is written [q, r] with n = 32 * q + r and 0 <= r < 32, so that
\* the whole u32 range and the f32 values just above it can be written down.
\* Of an f32 only the whole part is kept: align32 floors value / 32, which
\* does not depend on the fraction.
U32_MAX == [q |-> 134217727, r |-> 31]
U32Samples == { [q |-> 57, r |-> 8],            \* 1832
                [q |-> 524288, r |-> 1],        \* 16777217 = 2^24 + 1
                [q |-> 134217720, r |-> 0],     \* 4294967040 = 2^32 - 256
                U32_MAX }                       \* 4294967295

\* the distance between neighbouring f32 values at n: 24 bits of significand
Ulp(n) ==
    IF n.q >= 67108864 THEN 256 ELSE IF n.q >= 33554432 THEN 128
    ELSE IF n.q >= 16777216 THEN 64 ELSE IF n.q >= 8388608 THEN 32
    ELSE IF n.q >= 4194304 THEN 16 ELSE IF n.q >= 2097152 THEN 8
    ELSE IF n.q >= 1048576 THEN 4 ELSE IF n.q >= 524288 THEN 2 ELSE 1

\* `n as f32` of a u32: the nearest f32, ties to the even significand
AsF32(n) ==
    LET u == Ulp(n) IN
    IF u < 32
    THEN LET k == n.r \div u
             rem == n.r % u
             up == 2 * rem > u \/ (2 * rem = u /\ k % 2 = 1)
             r2 == (k + (IF up THEN 1 ELSE 0)) * u
         IN  IF r2 = 32 THEN [q |-> n.q + 1, r |-> 0] ELSE [q |-> n.q, r |-> r2]
    ELSE LET m == u \div 32
             k == n.q \div m
             rem == (n.q % m) * 32 + n.r
             up == 2 * rem > u \/ (2 * rem = u /\ k % 2 = 1)
         IN  [q |-> (k + (IF up THEN 1 ELSE 0)) * m, r |-> 0]

\* `value as u32` of a non-negative f32: truncates, and saturates at u32::MAX
AsU32(value) == IF value.q >= 134217728 THEN U32_MAX ELSE value

\* ((value / 32.).floor() * 32.) as u32
align32(value) == AsU32([q |-> value.q, r |-> 0])

\* value * scale for the scales 0.5, 1 and 2 (exact in f32), whole part
Scales == {"0.5", "1", "2"}
TimesScale(value, scale) ==
    CASE scale = "1" -> value
      [] scale = "2" -> [q |-> 2 * value.q + (2 * value.r) \div 32,
                         r |-> (2 * value.r) % 32]
      [] scale = "0.5" -> [q |-> value.q \div 2,
                           r |-> ((value.q % 2) * 32 + value.r) \div 2]

FrameSizes ==
    [type : {"Scale"}, scale : Scales]
        \cup [type : {"Absolute"}, width : U32Samples, height : U32Samples]

\* the match on a FrameSize, then align32 of both sizes
EyeResolution(frame_size, headset_info) ==
    LET eye == IF frame_size.type = "Scale"
               THEN [width |-> TimesScale(AsF32(headset_info.recommended_eye_width),
                                          frame_size.scale),
                     height |-> TimesScale(AsF32(headset_info.recommended_eye_height),
                                           frame_size.scale)]
               ELSE [width |-> TimesScale(AsF32(frame_size.width), "0.5"),
                     height |-> AsF32(frame_size.height)]
    IN  [width |-> align32(eye.width), height |-> align32(eye.height)]

ResolutionInputs ==
    [fn : {"resolution"}, render_resolution : FrameSizes,
     recommended_target_resolution : FrameSizes,
     headset_info : [recommended_eye_width : U32Samples,
                     recommended_eye_height : {[q |-> 60, r |-> 0], U32_MAX}]]
ResolveResolution ==
    Returns("resolution",
            [video_eye |-> EyeResolution(args.render_resolution, args.headset_info),
             target_eye |-> EyeResolution(args.recommended_target_resolution,
                                          args.headset_info)])

\* ---- the devices: DeviceConnected at stream setup, one Input packet in
\* input_receive_loop
DeviceIds == {"HEAD_ID", "LEFT_HAND_ID", "RIGHT_HAND_ID"}
Switches == {"Enabled", "Disabled"}

\* the DeviceConnected events of the stream setup, in order
DeviceConnected(sender, controllers) ==
    IF sender = "None" THEN <<>>
    ELSE <<"HEAD_ID">>
         \o (IF controllers = "Enabled"
             THEN <<"LEFT_HAND_ID", "RIGHT_HAND_ID">> ELSE <<>>)

\* for (id, motion) in &input.device_motions: the DevicePose events posted
DevicePoses(sender, controllers, device_motions) ==
    IF sender = "None" THEN <<>>
    ELSE SelectSeq(device_motions,
                   LAMBDA id : controllers = "Enabled"
                               \/ (id # "LEFT_HAND_ID" /\ id # "RIGHT_HAND_ID"))

\* device_motions.iter().find(|(id, _)| *id == wanted).unwrap()
FindMotion(device_motions, wanted) ==
    IF \E i \in 1..Len(device_motions) : device_motions[i] = wanted
    THEN wanted ELSE "panic"

\* the calls of InputReceive for one Input: none when an unwrap panics, else
\* one, with a TrackingInfo that says whose motion goes into the head pose and
\* into controller[0] and controller[1]
TrackingInfo(device_motions) ==
    LET head_motion == FindMotion(device_motions, "HEAD_ID")
        left_hand_motion == FindMotion(device_motions, "LEFT_HAND_ID")
        right_hand_motion == FindMotion(device_motions, "RIGHT_HAND_ID")
    IN  IF "panic" \in {head_motion, left_hand_motion, right_hand_motion}
        THEN <<>>
        ELSE <<[HeadPose |-> head_motion,
                controller |-> <<left_hand_motion, right_hand_motion>>]>>

\* an Input packet carries the motions of some devices, each once
DeviceMotions ==
    {m \in UNION {[1..n -> DeviceIds] : n \in 0..Cardinality(DeviceIds)} :
        \A i, j \in 1..Len(m) : i # j => m[i] # m[j]}
InputInputs == [fn : {"input"}, sender : {"None", "Some"}, controllers : Switches,
                device_motions : DeviceMotions]
InputReceived ==
    Returns("input",
            [device_connected |-> DeviceConnected(args.sender, args.controllers),
             device_poses |-> DevicePoses(args.sender, args.controllers,
                                          args.device_motions),
             InputReceive |-> TrackingInfo(args.device_motions)])

\* ---- capi.rs: strings copied into the caller's memory
\* A string is the sequence of its bytes, none of them 0; memory is a sequence
\* of bytes too.
MaxSerial == 3
SerialNumbers == {SubSeq(<<65, 66, 67, 68>>, 1, n) : n \in 0..MaxSerial}
\* what the caller's buffer holds before the call: zeroes, or anything else
Fills == {0, 170}

\* CString::new(value).unwrap().as_bytes_with_nul()
as_bytes_with_nul(value) == value \o <<0>>

\* ptr::copy_nonoverlapping(src, dst, count) into the memory at dst
copy_nonoverlapping(src, memory, count) ==
    [i \in 1..Len(memory) |-> IF i <= count THEN src[i] ELSE memory[i]]

\* min(c_string.as_bytes_with_nul().len(), max_length)
SerialNumberLength(c_string, max_length) ==
    IF Len(c_string) < max_length THEN Len(c_string) ELSE max_length

\* the serial of a device: the headset's, or the controllers' with _Left or
\* _Right
SerialValue(top_level_path, headset, controllers) ==
    CASE top_level_path = "HEAD_ID" -> headset
      [] top_level_path = "LEFT_HAND_ID"
           -> controllers \o <<95, 76, 101, 102, 116>>
      [] top_level_path = "RIGHT_HAND_ID"
           -> controllers \o <<95, 82, 105, 103, 104, 116>>

\* alvr_get_serial_number(top_level_path, serial_number, max_length), where
\* serial_number points to max_length bytes; any other path is unreachable!()
alvr_get_serial_number(top_level_path, headset, controllers, serial_number) ==
    IF top_level_path \notin DeviceIds
    THEN [panic |-> TRUE, length |-> 0, serial_number |-> serial_number]
    ELSE LET value == SerialValue(top_level_path, headset, controllers)
             c_string == as_bytes_with_nul(value)
             length == SerialNumberLength(c_string, Len(serial_number))
         IN  [panic |-> FALSE, length |-> length,
              serial_number |-> copy_nonoverlapping(c_string, serial_number, length)]

SerialInputs ==
    [fn : {"serial_number"}, top_level_path : DeviceIds \cup {"other"},
     headset : SerialNumbers, controllers : SerialNumbers,
     max_length : 1..(MaxSerial + 8), fill : Fills]
GetSerialNumber ==
    Returns("serial_number",
            alvr_get_serial_number(args.top_level_path, args.headset,
                                   args.controllers,
                                   [i \in 1..args.max_length |-> args.fill]))

\* ---- to_capi_prop: AlvrOpenvrPropValue::String([c_char; 64])
RAW_STRING_LEN == 64
\* how far past 63 bytes the strings tried go
MaxOver == 3
PropStrings ==
    {[i \in 1..n |-> 65 + (i % 26)] : n \in 0..(RAW_STRING_LEN - 1 + MaxOver)}
PropValues == [type : {"String"}, value : PropStrings]
                  \cup [type : {"Bool"}, value : BOOLEAN]

\* what to_capi_prop can come to for a value.  `raw_string = [0; 64]`, then
\* copy_nonoverlapping of the whole C string with its NUL: a string that fits is
\* copied; for a longer one the copy runs past the end of raw_string, which is
\* undefined: the bytes after the array are overwritten (beyond), or the
\* process is stopped (crash).
to_capi_prop(value) ==
    IF value.type # "String"
    THEN {[crash |-> FALSE, type |-> value.type, raw_string |-> <<>>,
           beyond |-> <<>>]}
    ELSE LET c_string == as_bytes_with_nul(value.value)
             count == Len(c_string)
             zeroed == [i \in 1..RAW_STRING_LEN |-> 0]
         IN  IF count <= RAW_STRING_LEN
             THEN {[crash |-> FALSE, type |-> "String",
                    raw_string |-> copy_nonoverlapping(c_string, zeroed, count),
                    beyond |-> <<>>]}
             ELSE {[crash |-> c, type |-> "String",
                    raw_string |-> SubSeq(c_string, 1, RAW_STRING_LEN),
                    beyond |-> SubSeq(c_string, RAW_STRING_LEN + 1, count)]
                   : c \in BOOLEAN}

PropInputs == [fn : {"to_capi_prop"}, value : PropValues]
ToCapiProp ==
    /\ args.fn = "to_capi_prop"
    /\ \E out \in to_capi_prop(args.value) : Returns("to_capi_prop", out)

\* ---- alvr_get_static_openvr_properties
\* the property keys of each device path, in the order of the vec![..]
StaticProps ==
    [HEAD_ID |-> <<"TrackingSystemName", "ModelNumber", "ManufacturerName",
                   "RenderModelName", "RegisteredDeviceType", "DriverVersion",
                   "SecondsFromVsyncToPhotons", "CurrentUniverseId", "IsOnDesktop",
                   "DriverDirectModeSendsVsyncEvents", "DeviceProvidesBatteryStatus",
                   "NamedIconPathDeviceOff", "NamedIconPathDeviceSearching",
                   "NamedIconPathDeviceSearchingAlert", "NamedIconPathDeviceReady",
                   "NamedIconPathDeviceReadyAlert", "NamedIconPathDeviceStandby">>,
     LEFT_HAND_ID |-> <<"TrackingSystemName", "ModelNumber", "ManufacturerName",
                        "RenderModelName", "RegisteredDeviceType",
                        "DeviceProvidesBatteryStatus", "ControllerType",
                        "ControllerType">>,
     RIGHT_HAND_ID |-> <<"TrackingSystemName", "ModelNumber", "ManufacturerName",
                         "RenderModelName", "RegisteredDeviceType",
                         "DeviceProvidesBatteryStatus", "ControllerType",
                         "ControllerType">>]

\* the props of the path asked for; `vec![]` for an unsupported device
PropsOf(top_level_path) ==
    IF top_level_path \in DeviceIds THEN StaticProps[top_level_path] ELSE <<>>

\* properties.is_null()
NeverNull(properties) == FALSE
is_null(properties) == properties.null

\* alvr_get_static_openvr_properties(top_level_path, properties): the count it
\* returns, the indices it wrote through the pointer, and the caller's array
\* after the call.  An entry is written as its key; its value is what
\* to_capi_prop makes of it.
alvr_get_static_openvr_properties(top_level_path, properties) ==
    LET props == PropsOf(top_level_path)
        prop_count == Len(props)
    IN  IF ~is_null(properties)
        THEN [prop_count |-> prop_count,
              written |-> [idx \in 1..prop_count |-> idx],
              properties |-> [idx \in 1..Len(properties.array) |->
                                 IF idx <= prop_count THEN props[idx]
                                 ELSE properties.array[idx]]]
        ELSE [prop_count |-> prop_count, written |-> <<>>,
              properties |-> properties.array]

\* the caller passes null, or an array with room for the count and more
MaxSpare == 1
StaticPropsInputs ==
    [fn : {"static_props"}, top_level_path : DeviceIds \cup {"other"},
     null : BOOLEAN, spare : 0..MaxSpare]
GetStaticProps ==
    /\ args.fn = "static_props"
    /\ Returns("static_props",
               alvr_get_static_openvr_properties(
                   args.top_level_path,
                   [null |-> args.null,
                    array |-> IF args.null THEN <<>>
                              ELSE [idx \in 1..(Len(PropsOf(args.top_level_path))
                                                + args.spare) |-> "unset"]]))

\* ---- ViewsConfig: input_receive_loop (event) and control_loop (SetViewsConfig)
\* An angle is [unit, n]: n degrees, or n * (PI / 180) radians.
Deg(n) == [unit |-> "deg", n |-> n]
FovSamples == { [left |-> Deg(50), right |-> Deg(40), top |-> Deg(30), bottom |-> Deg(35)],
                [left |-> Deg(0), right |-> Deg(0), top |-> Deg(0), bottom |-> Deg(0)],
                [left |-> Deg(-10), right |-> Deg(45), top |-> Deg(-5), bottom |-> Deg(48)] }

\* value / 180.0 * PI, and the same of -value
TimesPiBy180(value) == [unit |-> "rad", n |-> value.n]
Neg(value) == [value EXCEPT !.n = 0 - @]

\* AlvrFov { left: -fov.left / 180.0 * PI, right: fov.right / 180.0 * PI,
\*           top: fov.top / 180.0 * PI, bottom: -fov.bottom / 180.0 * PI }
AlvrFovPlain(fov) ==
    [left |-> TimesPiBy180(fov.left), right |-> TimesPiBy180(fov.right),
     top |-> TimesPiBy180(fov.top), bottom |-> TimesPiBy180(fov.bottom)]
AlvrFov(fov) ==
    [left |-> TimesPiBy180(Neg(fov.left)), right |-> TimesPiBy180(fov.right),
     top |-> TimesPiBy180(fov.top), bottom |-> TimesPiBy180(Neg(fov.bottom))]

\* the ViewsConfig events one Input makes the loop post: one if the ipd or the
\* fov of the first eye differs from the last one posted, and there is a sender
InputViewsConfig(sender, views_config, ipd_changed, old_fov) ==
    IF sender = "Some" /\ (ipd_changed \/ views_config.fov[1] # old_fov)
    THEN <<[fov |-> <<AlvrFov(views_config.fov[1]), AlvrFov(views_config.fov[2])>>]>>
    ELSE <<>>

\* ClientControlPacket::ViewsConfig(config) => SetViewsConfig(ViewsConfigData {..})
EyeFov(fov) ==
    [left |-> fov.left, right |-> fov.right, top |-> fov.top, bottom |-> fov.bottom]
ControlViewsConfig(config) ==
    <<[fov |-> <<EyeFov(config.fov[1]), EyeFov(config.fov[2])>>]>>

ViewsInputs ==
    [fn : {"views_config"}, path : {"input", "control"}, sender : {"None", "Some"},
     views_config : [fov : [1..2 -> FovSamples]],
     ipd_changed : BOOLEAN, old_fov : FovSamples]
ViewsConfig ==
    /\ args.fn = "views_config"
    /\ Returns("views_config",
               IF args.path = "input"
               THEN InputViewsConfig(args.sender, args.views_config,
                                     args.ipd_changed, args.old_fov)
               ELSE ControlViewsConfig(args.views_config))

\* ---- input_receive_loop over several Inputs: old_ipd and old_fov
\* ipd_m is counted in units of f32::EPSILON
F32_EPSILON == 1
IpdSamples == {0, 1, 2}
DefaultFov == [left |-> Deg(0), right |-> Deg(0), top |-> Deg(0), bottom |-> Deg(0)]
EyeFovSamples == {DefaultFov,
                  [left |-> Deg(50), right |-> Deg(40), top |-> Deg(30), bottom |-> Deg(35)]}
MaxInputs == 3
InputViews == [ipd_m : IpdSamples, fov : [1..2 -> EyeFovSamples]]

\* `let mut old_ipd = 0_f32; let mut old_fov = Fov::default();`
NoOldViews == [old_ipd |-> 0, old_fov |-> DefaultFov]

\* f32::abs(input.views_config.ipd_m - old_ipd) > f32::EPSILON
IpdChanged(ipd_m, old_ipd) == Abs(ipd_m - old_ipd) > F32_EPSILON

\* old_ipd = input.views_config.ipd_m; old_fov = input.views_config.fov[0];
\* both inside the `if` that posts
LastInputViews(old, views_config, posted) ==
    [old_ipd |-> views_config.ipd_m, old_fov |-> views_config.fov[1]]
OldViews(old, views_config, posted) ==
    IF posted THEN [old_ipd |-> views_config.ipd_m, old_fov |-> views_config.fov[1]]
    ELSE old

\* the iterations of the loop over the Inputs of the stream, in order: for each
\* Input whether a ViewsConfig event was posted
RECURSIVE ViewsPosted(_, _, _)
ViewsPosted(sender, inputs, old) ==
    IF inputs = <<>> THEN <<>>
    ELSE LET views_config == Head(inputs)
             posted == InputViewsConfig(sender, views_config,
                                        IpdChanged(views_config.ipd_m, old.old_ipd),
                                        old.old_fov) # <<>>
         IN  <<posted>> \o ViewsPosted(sender, Tail(inputs),
                                       OldViews(old, views_config, posted))

InputLoopInputs ==
    [fn : {"input_loop"}, sender : {"None", "Some"},
     inputs : UNION {[1..n -> InputViews] : n \in 1..MaxInputs}]
InputLoop ==
    /\ args.fn = "input_loop"
    /\ Returns("input_loop", ViewsPosted(args.sender, args.inputs, NoOldViews))

\* ---- PlayspaceSync: control_loop forwards, the playspace thread receives
\* the PlayspaceSync packets of a stream are numbered in reception order
MaxPackets == 3
PacketNumbers(n) == [i \in 1..n |-> i]

\* Ok(ClientControlPacket::PlayspaceSync(packet)) =>
\*     if !is_tracking_ref_only { playspace_sync_sender.send(packet).ok(); }
PlayspaceForwarded(is_tracking_ref_only, packets) ==
    IF is_tracking_ref_only THEN <<>> ELSE packets

\* thread::spawn(.. while let Ok(packet) = playspace_sync_receiver.recv() {..}),
\* inside `if !is_tracking_ref_only`; the thread calls SetChaperone in the else
\* branch of `if let Some(sender) = &*DRIVER_EVENT_SENDER.lock() {}`
PlayspaceThread(is_tracking_ref_only, sender, forwarded) ==
    IF is_tracking_ref_only THEN [spawned |-> FALSE, SetChaperone |-> <<>>]
    ELSE [spawned |-> TRUE,
          SetChaperone |-> IF sender = "Some" THEN <<>> ELSE forwarded]

PlayspaceInputs == [fn : {"playspace"}, tracking_ref_only : BOOLEAN,
                    sender : {"None", "Some"}, received : 0..MaxPackets]
PlayspaceSync ==
    /\ args.fn = "playspace"
    /\ LET forwarded == PlayspaceForwarded(args.tracking_ref_only,
                                          PacketNumbers(args.received))
           thread == PlayspaceThread(args.tracking_ref_only, args.sender, forwarded)
       IN Returns("playspace", [forwarded |-> forwarded, spawned |-> thread.spawned,
                                SetChaperone |-> thread.SetChaperone])

\* ---- control_loop: the match on control_receiver.recv().await
\* StreamReady stands for the packets without an arm of their own
ControlPackets == {"PlayspaceSync", "RequestIdr", "TimeSync", "VideoErrorReport",
                   "ViewsConfig", "Battery", "StreamReady"}
ControlRecvs == ControlPackets \cup {"Err"}
MaxRecvs == 3

\* what the arm of an Ok(packet) calls
ControlDispatch(packet, is_tracking_ref_only) ==
    CASE packet = "PlayspaceSync" ->
           IF is_tracking_ref_only THEN <<>> ELSE <<"playspace_sync_sender.send">>
      [] packet = "RequestIdr" -> <<"RequestIDR">>
      [] packet = "TimeSync" -> <<"TimeSyncReceive">>
      [] packet = "VideoErrorReport" -> <<"VideoErrorReportReceive">>
      [] packet = "ViewsConfig" -> <<"SetViewsConfig">>
      [] packet = "Battery" -> <<"SetBattery">>
      [] OTHER -> <<>>

\* Ok(_) => (), and Err(e) => { log_event(ClientDisconnected); info!; break }
UnknownPacketBreaks(recv) == IF recv \in {"Err", "StreamReady"} THEN "break" ELSE "loop"
ControlArm(recv) == IF recv = "Err" THEN "break" ELSE "loop"

\* control_loop over what recv() returns, in order: the calls made, the
\* ClientDisconnected events logged and what the future has returned ("pending"
\* while it awaits the next recv)
RECURSIVE ControlLoop(_, _)
ControlLoop(recvs, is_tracking_ref_only) ==
    IF recvs = <<>>
    THEN [calls |-> <<>>, clientDisconnected |-> 0, result |-> "pending"]
    ELSE IF ControlArm(Head(recvs)) = "break"
    THEN [calls |-> <<>>, clientDisconnected |-> 1, result |-> "Ok"]
    ELSE LET rest == ControlLoop(Tail(recvs), is_tracking_ref_only)
         IN  [rest EXCEPT !.calls = ControlDispatch(Head(recvs), is_tracking_ref_only)
                                      \o @]

ControlLoopInputs ==
    [fn : {"control_loop"}, tracking_ref_only : BOOLEAN,
     recvs : UNION {[1..n -> ControlRecvs] : n \in 1..MaxRecvs}]
ControlLoopRuns ==
    /\ args.fn = "control_loop"
    /\ Returns("control_loop", ControlLoop(args.recvs, args.tracking_ref_only))

\* ---- the producers the driver calls: video_send, time_sync_send (callbacks
\* of alvr_initialize) and alvr_send_haptics
\* Sessions are numbered; `published` is the session whose loop stored its
\* sender in the static last (0: the static is None), `running` the session
\* whose loop holds the receiver of its channel now (0: none does).
DriverProducers == {"video_send", "time_sync_send", "alvr_send_haptics"}
MaxSessions == 2
\* the argument the item is built from: len of video_send, duration_s of
\* alvr_send_haptics
ProducerArgs(producer) ==
    CASE producer = "video_send" -> {"1000", "-1"}
      [] producer = "time_sync_send" -> {"-"}
      [] producer = "alvr_send_haptics" -> {"0.25", "0.0", "-1.0", "NaN"}

\* building the item: vec![0; len as _] with a negative len asks for more than
\* isize::MAX bytes and panics; Duration::from_secs_f32 panics on a negative
\* or not finite value
BuildItem(producer, arg) ==
    CASE producer = "video_send" /\ arg = "-1" -> "panic"
      [] producer = "alvr_send_haptics" /\ arg \in {"-1.0", "NaN"} -> "panic"
      [] OTHER -> "built"

\* if let Some(sender) = &*SENDER.lock() { ..; sender.send(item).ok(); }: the
\* send of an unbounded channel returns at once, Err when the receiver of that
\* sender's channel is gone
Producer(producer, arg, published, running) ==
    IF published = 0 THEN [result |-> "returned", item |-> "not_sent", session |-> 0]
    ELSE IF BuildItem(producer, arg) = "panic"
    THEN [result |-> "panic", item |-> "not_sent", session |-> 0]
    ELSE IF running = published
    THEN [result |-> "returned", item |-> "queued", session |-> published]
    ELSE [result |-> "returned", item |-> "dropped", session |-> 0]

ProducerInputs ==
    UNION {[fn : {"producer"}, producer : {producer}, arg : ProducerArgs(producer),
            published : 0..MaxSessions, running : 0..MaxSessions] :
           producer \in DriverProducers}
ProducerCalled ==
    /\ args.fn = "producer"
    /\ Returns("producer",
               Producer(args.producer, args.arg, args.published, args.running))

\* ---------------------------------------- the session a handshake leaves
\* The part of connection.rs client_handshake that reads and writes
\* SESSION_MANAGER.  A session is its settings (of which universe_id and
\* video.foveated_rendering.enabled stand for all) and its openvr_config.
UniverseIds == {2, 3}
TargetOs == {"linux", "windows"}
OpenvrConfigs ==
    [universe_id : UniverseIds, enable_foveated_rendering : BOOLEAN]
SessionDescs ==
    [universe_id : UniverseIds, foveated_rendering_enabled : BOOLEAN,
     openvr_config : OpenvrConfigs]

\* session_desc: `let mut session = SESSION_MANAGER.lock().get().clone()`,
\* foveated rendering disabled in it when cfg!(target_os = "linux")
SessionDesc(session, target_os) ==
    IF target_os = "linux"
    THEN [session EXCEPT !.foveated_rendering_enabled = FALSE]
    ELSE session

\* what SESSION_MANAGER holds once session_desc is built: get() hands out a
\* shared reference and the write goes to the clone
WritesThrough(session, session_desc) ==
    [session EXCEPT !.foveated_rendering_enabled =
                        session_desc.foveated_rendering_enabled]
SessionAfterClone(session, session_desc) == session

\* new_openvr_config: universe_id from `settings` (read before the packet is
\* built), enable_foveated_rendering from `session_settings` (read after it)
NewOpenvrConfig(settings, session_settings) ==
    [universe_id |-> settings.universe_id,
     enable_foveated_rendering |-> session_settings.foveated_rendering_enabled]

\* client_handshake from the ClientConfigPacket on: the packet sent (`?` on the
\* send), the config resolved and compared, the session persisted when it
\* differs (and then the handshake never returns: Restarting, pending)
ClientHandshake(session, target_os, sendOk) ==
    LET settings == session
        session_desc == SessionDesc(session, target_os)
        persisted == SessionAfterClone(session, session_desc)
        new_openvr_config == NewOpenvrConfig(settings, persisted)
    IN  IF ~sendOk
        THEN [result |-> "Err", session_desc |-> session_desc,
              new_openvr_config |-> <<>>, session |-> persisted]
        ELSE IF ConfigDiffers(persisted.openvr_config, new_openvr_config)
        THEN [result |-> "Restarting", session_desc |-> session_desc,
              new_openvr_config |-> <<new_openvr_config>>,
              session |-> [persisted EXCEPT !.openvr_config = new_openvr_config]]
        ELSE [result |-> "Ok", session_desc |-> session_desc,
              new_openvr_config |-> <<new_openvr_config>>,
              session |-> persisted]

HandshakeInputs ==
    [fn : {"client_handshake"}, session : SessionDescs, target_os : TargetOs,
     sendOk : BOOLEAN]
ClientHandshakeCalled ==
    /\ args.fn = "client_handshake"
    /\ Returns("client_handshake",
               ClientHandshake(args.session, args.target_os, args.sendOk))

\* ------------------------------------------- the events of a stream setup
\* the calls connection_pipeline makes to the driver between the connect script
\* and the StreamCloseGuard: the posts through DRIVER_EVENT_SENDER, then
\* InitializeStreaming
EyeResolutions == {"2880x1600", "3664x1920"}
DriverCall(call, path, profile, resolution) ==
    [call |-> call, path |-> path, interaction_profile |-> profile,
     preferred_view |-> resolution]

\* the posts in the order of the code; the two of the hands are inside
\* `if matches!(settings.headset.controllers, Switch::Enabled(_))`
HandsBeforeVideoConfig(controllers) ==
    <<"DeviceConnected_HEAD">>
      \o (IF controllers = "Enabled"
          THEN <<"DeviceConnected_LEFT_HAND", "DeviceConnected_RIGHT_HAND">>
          ELSE <<>>)
      \o <<"VideoConfig">>
SetupPostOrder(controllers) ==
    <<"DeviceConnected_HEAD", "VideoConfig">>
      \o (IF controllers = "Enabled"
          THEN <<"DeviceConnected_LEFT_HAND", "DeviceConnected_RIGHT_HAND">>
          ELSE <<>>)

\* the AlvrEvent of each post; session.openvr_config is the persisted config
InitialEvent(site, eye_resolution) ==
    CASE site = "DeviceConnected_HEAD" ->
           DriverCall("DeviceConnected", "HEAD_ID", "0", "-")
      [] site = "VideoConfig" ->
           DriverCall("VideoConfig", "-", "-", eye_resolution)
      [] site = "DeviceConnected_LEFT_HAND" ->
           DriverCall("DeviceConnected", "LEFT_HAND_ID", "touch_controller", "-")
      [] site = "DeviceConnected_RIGHT_HAND" ->
           DriverCall("DeviceConnected", "RIGHT_HAND_ID", "touch_controller", "-")

\* the calls in order: a post that panics ends them, with no InitializeStreaming
StreamSetupCalls(sender, receiver, controllers, eye_resolution) ==
    LET sites == SetupPostOrder(controllers)
        result(i) == Post(sites[i], sender, receiver)
        panics == {i \in 1..Len(sites) : result(i) = "panic"}
        reached(i) == \A j \in panics : i < j
        posted == SelectSeq([i \in 1..Len(sites) |->
                               IF reached(i) /\ result(i) = "delivered"
                               THEN <<InitialEvent(sites[i], eye_resolution)>>
                               ELSE <<>>],
                            LAMBDA e : e # <<>>)
    IN [i \in 1..Len(posted) |-> posted[i][1]]
         \o (IF panics = {}
             THEN <<DriverCall("InitializeStreaming", "-", "-", "-")>> ELSE <<>>)

StreamSetupInputs == [fn : {"stream_setup"}, sender : {"None", "Some"},
                      receiver : {"open", "closed"}, controllers : Switches,
                      eye_resolution : EyeResolutions]
StreamSetup ==
    /\ args.fn = "stream_setup"
    /\ Returns("stream_setup",
               StreamSetupCalls(args.sender, args.receiver, args.controllers,
                                args.eye_resolution))

\* ------------------------------------------------------------- the calls
CallInputs == PostInputs \cup FpsInputs \cup ResolutionInputs \cup InputInputs
                  \cup SerialInputs \cup PropInputs \cup StaticPropsInputs
                  \cup ViewsInputs \cup StreamSetupInputs \cup InputLoopInputs
                  \cup PlayspaceInputs \cup ControlLoopInputs \cup ProducerInputs
                  \cup HandshakeInputs
CallInit == Idle /\ args \in CallInputs /\ ret = NoCall /\ video = NoVideo /\ vsync = NoVsync /\ events = NoEvents /\ notify = NoNotify /\ control_sender = NoControlSender
CallNext ==
    \/ PostEvent
    \/ ResolveFps
    \/ ResolveResolution
    \/ InputReceived
    \/ GetSerialNumber
    \/ ToCapiProp
    \/ GetStaticProps
    \/ ViewsConfig
    \/ StreamSetup
    \/ InputLoop
    \/ PlayspaceSync
    \/ ControlLoopRuns
    \/ ProducerCalled
    \/ ClientHandshakeCalled
CallSpec == CallInit /\ [][CallNext]_vars

\* ======================================================================
\* The video channel: capi.rs video_send and connection.rs video_send_loop
\* ======================================================================
\* Frames are numbered in the order the driver hands them to the callback
\* (video.offered of them so far).  video.accepted lists the frames whose
\* sender.send returned Ok, video.written the frames handed to
\* socket_sender.send_buffer.
MaxFrames == 3

\* data_receiver.recv(): the oldest frame of the channel
RecvNewest(channel) == channel[Len(channel)]
Recv(channel) == Head(channel)
AfterRecv(channel, frame) ==
    SelectSeq(channel, LAMBDA f : f # frame)

\* the loop starts with a pipeline: a new channel, its sender in VIDEO_SENDER
VideoLoopStart ==
    /\ video.receiver \in {"none", "dropped"}
    /\ video' = [video EXCEPT !.sender = "Some", !.receiver = "alive",
                              !.channel = <<>>, !.buffer = <<>>]
    /\ UNCHANGED <<mainVars, args, ret, vsync, events, notify, control_sender>>

\* the driver's callback: without a sender in VIDEO_SENDER it does nothing;
\* with one, sender.send(..).ok(), where send is Err (and the frame gone) when
\* the receiver of that sender has been dropped
video_send ==
    /\ video.offered < MaxFrames
    /\ LET frame == video.offered + 1
       IN  IF video.sender = "Some" /\ video.receiver = "alive"
           THEN video' = [video EXCEPT !.offered = frame,
                                       !.channel = Append(@, frame),
                                       !.accepted = Append(@, frame)]
           ELSE video' = [video EXCEPT !.offered = frame]
    /\ UNCHANGED <<mainVars, args, ret, vsync, events, notify, control_sender>>

\* recv() yields a frame; new_buffer(..)? either gives the buffer the frame is
\* put in, or ends the loop with its error
VideoLoopRecv(newBufferOk) ==
    /\ video.receiver = "alive" /\ video.buffer = <<>>
    /\ video.channel # <<>>
    /\ LET frame == Recv(video.channel)
       IN  IF newBufferOk
           THEN video' = [video EXCEPT !.channel = AfterRecv(@, frame),
                                       !.buffer = <<frame>>]
           ELSE video' = [video EXCEPT !.channel = <<>>, !.receiver = "dropped"]
    /\ UNCHANGED <<mainVars, args, ret, vsync, events, notify, control_sender>>

\* socket_sender.send_buffer(buffer).await.ok(): whatever the result, the loop
\* goes on to the next recv()
VideoLoopSendBuffer ==
    /\ video.receiver = "alive" /\ video.buffer # <<>>
    /\ video' = [video EXCEPT !.written = @ \o video.buffer,
                              !.buffer = <<>>]
    /\ UNCHANGED <<mainVars, args, ret, vsync, events, notify, control_sender>>

\* another arm of the select! completed (or the supervisor was aborted): the
\* loop's future is dropped at the await it is in, and its receiver with it;
\* VIDEO_SENDER keeps the sender
VideoLoopDropped ==
    /\ video.receiver = "alive"
    /\ video' = [video EXCEPT !.receiver = "dropped", !.channel = <<>>,
                              !.buffer = <<>>]
    /\ UNCHANGED <<mainVars, args, ret, vsync, events, notify, control_sender>>

VideoInit == Idle /\ args = NoCall /\ ret = NoCall /\ video = NoVideo /\ vsync = NoVsync /\ events = NoEvents /\ notify = NoNotify /\ control_sender = NoControlSender
VideoNext ==
    \/ VideoLoopStart
    \/ video_send
    \/ \E newBufferOk \in BOOLEAN : VideoLoopRecv(newBufferOk)
    \/ VideoLoopSendBuffer
    \/ VideoLoopDropped
VideoSpec == VideoInit /\ [][VideoNext]_vars

\* ======================================================================
\* capi.rs alvr_wait_for_vsync, called by the driver's thread over and over
\* ======================================================================
\* Duration::from_secs_f32(1.0 / 72.0), in nanoseconds
FRAME_TIME == 13888889
MaxCalls == 4
\* Duration::from_millis(timeout_ms) in nanoseconds, for the timeouts tried
Timeouts == {0, 5000000, 14000000, 100000000}
\* how long the caller may stay away between two calls
MaxDelay == 3 * FRAME_TIME
Delays == {FRAME_TIME \div 2, MaxDelay}

\* (*last_vsync_ref + frame_time).saturating_duration_since(now)
saturating_duration_since(later, earlier) ==
    IF later > earlier THEN later - earlier ELSE 0

\* Duration::min(.., Duration::from_millis(timeout_ms)): what the call sleeps
SleepUncapped(last_vsync, frame_time, now, timeout) ==
    saturating_duration_since(last_vsync + frame_time, now)
SleepDuration(last_vsync, frame_time, now, timeout) ==
    LET wait == saturating_duration_since(last_vsync + frame_time, now)
    IN  IF wait < timeout THEN wait ELSE timeout

\* the driver does something else for a while before it calls again
CallerAway(delay) ==
    /\ vsync.calls < MaxCalls /\ vsync.away = 0
    /\ vsync' = [vsync EXCEPT !.now = @ + delay, !.away = delay,
                              !.late = @ \/ delay > FRAME_TIME]
    /\ UNCHANGED <<mainVars, args, ret, video, events, notify, control_sender>>

\* one call: sleep, then *last_vsync_ref += frame_time
alvr_wait_for_vsync(timeout) ==
    /\ vsync.calls < MaxCalls
    /\ LET frame_time == FRAME_TIME
           sleep == SleepDuration(vsync.LAST_VSYNC, frame_time, vsync.now, timeout)
       IN  vsync' = [vsync EXCEPT !.now = @ + sleep,
                                  !.LAST_VSYNC = @ + frame_time,
                                  !.calls = @ + 1, !.away = 0,
                                  !.slept = sleep, !.timeout = timeout,
                                  !.due = saturating_duration_since(
                                              vsync.LAST_VSYNC + frame_time,
                                              vsync.now),
                                  !.short = @ \/ timeout < frame_time]
    /\ UNCHANGED <<mainVars, args, ret, video, events, notify, control_sender>>

VsyncInit == Idle /\ args = NoCall /\ ret = NoCall /\ video = NoVideo
             /\ vsync = NoVsync /\ events = NoEvents /\ notify = NoNotify /\ control_sender = NoControlSender
VsyncNext ==
    \/ \E delay \in Delays : CallerAway(delay)
    \/ \E timeout \in Timeouts : alvr_wait_for_vsync(timeout)
VsyncSpec == VsyncInit /\ [][VsyncNext]_vars

\* ======================================================================
\* capi.rs: the event channel and alvr_read_event
\* ======================================================================
MaxEvents == 3
MaxReads == 4
\* the timeouts tried, in milliseconds
MaxTimeout == 2

\* alvr_initialize: mpsc::channel(), both ends put into the statics
CreateEventChannel ==
    /\ events.receiver = "None"
    /\ events' = [events EXCEPT !.receiver = "Some"]
    /\ UNCHANGED <<mainVars, args, ret, video, vsync, notify, control_sender>>

\* a producer posts its next event: sender.send(event)
SendEvent(producer) ==
    /\ events.receiver = "Some"
    /\ events.posted[producer] < MaxEvents
    /\ LET k == events.posted[producer] + 1
       IN  events' = [events EXCEPT
                        !.posted[producer] = k,
                        !.channel = Append(@, [ty |-> "event",
                                               producer |-> producer, k |-> k])]
    /\ UNCHANGED <<mainVars, args, ret, video, vsync, notify, control_sender>>

\* .unwrap_or(AlvrEvent::None) of the Err of recv_timeout
RecvErrorPanics == [ty |-> "panic", producer |-> "-", k |-> 0]
OnRecvError == NoEvent

\* alvr_read_event(timeout_ms).  recv_timeout yields the oldest event at once if
\* there is one; else it waits: either a producer sends `during` the wait,
\* after `at` < timeout_ms, and that event is returned, or the timeout passes.
\* `.as_ref().unwrap()` panics while there is no receiver.
alvr_read_event(timeout_ms, during, at) ==
    /\ events.calls < MaxReads
    /\ IF events.receiver = "None"
       THEN /\ during = "-" /\ at = 0
            /\ events' = [events EXCEPT
                            !.calls = @ + 1, !.receiving = FALSE, !.timeout = timeout_ms,
                            !.blocked = 0, !.arrived = FALSE,
                            !.result = [ty |-> "panic", producer |-> "-", k |-> 0]]
       ELSE IF events.channel # <<>>
       THEN /\ during = "-" /\ at = 0
            /\ events' = [events EXCEPT
                            !.calls = @ + 1, !.receiving = TRUE, !.timeout = timeout_ms,
                            !.blocked = 0, !.arrived = TRUE,
                            !.result = Head(events.channel),
                            !.channel = Tail(@),
                            !.returned = Append(@, Head(events.channel))]
       ELSE IF during \in Producers
       THEN /\ at < timeout_ms
            /\ events.posted[during] < MaxEvents
            /\ LET event == [ty |-> "event", producer |-> during,
                             k |-> events.posted[during] + 1]
               IN  events' = [events EXCEPT
                                !.calls = @ + 1, !.receiving = TRUE, !.timeout = timeout_ms,
                                !.blocked = at, !.arrived = TRUE,
                                !.posted[during] = event.k,
                                !.result = event,
                                !.returned = Append(@, event)]
       ELSE /\ at = 0
            /\ events' = [events EXCEPT
                            !.calls = @ + 1, !.receiving = TRUE, !.timeout = timeout_ms,
                            !.blocked = timeout_ms, !.arrived = FALSE,
                            !.result = OnRecvError]
    /\ UNCHANGED <<mainVars, args, ret, video, vsync, notify, control_sender>>

EventInit == Idle /\ args = NoCall /\ ret = NoCall /\ video = NoVideo
             /\ vsync = NoVsync /\ events = NoEvents /\ notify = NoNotify /\ control_sender = NoControlSender
EventNext ==
    \/ CreateEventChannel
    \/ \E producer \in Producers : SendEvent(producer)
    \/ \E timeout_ms \in 0..MaxTimeout, during \in Producers \cup {"-"},
          at \in 0..MaxTimeout : alvr_read_event(timeout_ms, during, at)
EventSpec == EventInit /\ [][EventNext]_vars

\* ----------------------------------------------------------------------
\* The two select!s of connection_pipeline and the notifiers, one run after
\* another: notify.phase is the select! the run awaits, notify.fired the
\* notifier that fired last and notify.heard whether that select! had an arm
\* for it.
MaxRuns == 3
MaxFires == 4

\* connection_lifecycle_loop calls connection_pipeline: the discovery/handshake
\* select! is awaited
NotifyPipelineStarts ==
    /\ notify.phase \in {"none", "returned"} /\ notify.runs < MaxRuns
    /\ notify' = [notify EXCEPT !.phase = "connect", !.runs = @ + 1,
                                !.fired = "none", !.heard = FALSE, !.cause = "none"]
    /\ UNCHANGED <<mainVars, args, ret, video, vsync, events, control_sender>>

\* Either::Right(Ok(connection_info)) and the stream setup: the select! of the
\* streaming supervisor is awaited
NotifyStreaming ==
    /\ notify.phase = "connect"
    /\ notify' = [notify EXCEPT !.phase = "streaming"]
    /\ UNCHANGED <<mainVars, args, ret, video, vsync, events, control_sender>>

\* a notifier fires while a select! is awaited: the arm of CLIENTS_UPDATED_NOTIFIER
\* returns Ok(()), the arm of RESTART_NOTIFIER goes on to send Restarting; a
\* select! without an arm for the notifier stays pending
NotifierFires(notifier) ==
    /\ notify.phase \in SelectPhases /\ notify.fires < MaxFires
    /\ notify' = [notify EXCEPT
                    !.fires = @ + 1, !.fired = notifier,
                    !.heard = Listens(notify.phase, notifier),
                    !.phase = IF ~Listens(@, notifier) THEN @
                              ELSE IF notifier = "RESTART" THEN "restart_branch"
                              ELSE "returned",
                    !.cause = IF ~Listens(notify.phase, notifier) THEN @
                              ELSE IF notifier = "RESTART" THEN @
                              ELSE "clients_updated"]
    /\ UNCHANGED <<mainVars, args, ret, video, vsync, events, control_sender>>

\* control_sender.lock().await.send(&Restarting).await.ok(); Ok(())
NotifyRestartSent ==
    /\ notify.phase = "restart_branch"
    /\ notify' = [notify EXCEPT !.phase = "returned", !.cause = "restart"]
    /\ UNCHANGED <<mainVars, args, ret, video, vsync, events, control_sender>>

\* another arm of the awaited select! completes and the run returns: a failed
\* discovery or handshake, a loop of the supervisor that ended
NotifyOtherArm ==
    /\ notify.phase \in SelectPhases
    /\ notify' = [notify EXCEPT !.phase = "returned", !.cause = "other_arm"]
    /\ UNCHANGED <<mainVars, args, ret, video, vsync, events, control_sender>>

NotifyInit == Idle /\ args = NoCall /\ ret = NoCall /\ video = NoVideo
              /\ vsync = NoVsync /\ events = NoEvents /\ notify = NoNotify /\ control_sender = NoControlSender
NotifyNext ==
    \/ NotifyPipelineStarts
    \/ NotifyStreaming
    \/ \E notifier \in Notifiers : NotifierFires(notifier)
    \/ NotifyRestartSent
    \/ NotifyOtherArm
NotifySpec == NotifyInit /\ [][NotifyNext]_vars

\* ----------------------------------------------------------------------
\* control_sender = Arc<tokio::sync::Mutex<ControlSocketSender>> while the
\* supervisor's select! runs.  control_sender.at[t] is where task t is: "sleep"
\* or "recv" between two sends, "lock" in control_sender.lock().await, "send"
\* in .send(..).await holding the MutexGuard, "gone" once its future is dropped
\* or has returned; control_sender.written lists the tasks whose send has
\* returned, in order.
MaxSends == 3

\* lock().await is granted at once when nobody holds the Mutex, else the task
\* queues; the Mutex is fair, it serves the waiters first come, first served
AlwaysGranted(owner) == TRUE
Granted(owner) == owner = "none"
Acquire(cs, t) ==
    IF Granted(cs.owner)
    THEN [cs EXCEPT !.owner = t, !.at[t] = "send"]
    ELSE [cs EXCEPT !.waiters = Append(@, t), !.at[t] = "lock"]

\* the MutexGuard is dropped: the Mutex goes to the first waiter
Release(cs) ==
    IF cs.waiters = <<>> THEN [cs EXCEPT !.owner = "none"]
    ELSE [cs EXCEPT !.owner = Head(cs.waiters), !.waiters = Tail(@),
                    !.at[Head(cs.waiters)] = "send"]

\* the future of task t is dropped: its place in the queue is given up, and
\* the MutexGuard it holds is dropped with it
HolderKeepsLock(cs, t) ==
    [cs EXCEPT !.waiters = SelectSeq(@, LAMBDA w : w # t), !.at[t] = "gone"]
DropFuture(cs, t) ==
    LET left == [cs EXCEPT !.waiters = SelectSeq(@, LAMBDA w : w # t),
                           !.at[t] = "gone"]
    IN  IF cs.owner = t THEN Release(left) ELSE left

\* the select! completes: keepalive_loop is dropped with it, the handle of the
\* spawned time_sync_send_loop is dropped, which asks the runtime to abort it
SelectCompletes(cs) ==
    [DropFuture(cs, "keepalive") EXCEPT !.aborted = TRUE]

\* the select! of the supervisor is polled for the first time
SupervisorStarts ==
    /\ control_sender.select = "none"
    /\ control_sender' = [control_sender EXCEPT
                            !.select = "streaming", !.at["keepalive"] = "sleep",
                            !.at["time_sync_send"] = "recv"]
    /\ UNCHANGED <<mainVars, args, ret, video, vsync, events, notify>>

\* keepalive_loop: control_sender.lock().await after the sleep (or at the start)
KeepaliveLocks ==
    /\ control_sender.at["keepalive"] = "sleep"
    /\ Len(control_sender.written) < MaxSends
    /\ control_sender' = Acquire(control_sender, "keepalive")
    /\ UNCHANGED <<mainVars, args, ret, video, vsync, events, notify>>

\* time_sync_send_loop: data_receiver.recv() returned a TimeSync of the driver
TimeSyncLocks ==
    /\ control_sender.at["time_sync_send"] = "recv"
    /\ Len(control_sender.written) < MaxSends
    /\ control_sender' = Acquire(control_sender, "time_sync_send")
    /\ UNCHANGED <<mainVars, args, ret, video, vsync, events, notify>>

\* .send(..).await returns in task t and the guard is dropped at the end of
\* the statement: keepalive_loop sleeps again or, on Err, breaks and the select!
\* completes; time_sync_send_loop goes back to recv (.ok()); the restart branch
\* returns Ok(()) (.ok())
SendReturns(t, sendOk) ==
    /\ control_sender.at[t] = "send"
    /\ LET sent == [control_sender EXCEPT
                      !.written = IF Len(@) < MaxSends THEN Append(@, t) ELSE @]
       IN control_sender' =
            CASE t = "keepalive" /\ sendOk ->
                   Release([sent EXCEPT !.at[t] = "sleep"])
              [] t = "keepalive" /\ ~sendOk ->
                   [SelectCompletes(sent) EXCEPT !.select = "returned"]
              [] t = "time_sync_send" ->
                   Release([sent EXCEPT !.at[t] = "recv"])
              [] t = "restart" ->
                   [Release([sent EXCEPT !.at[t] = "gone"]) EXCEPT !.select = "returned"]
    /\ UNCHANGED <<mainVars, args, ret, video, vsync, events, notify>>

\* _ = RESTART_NOTIFIER.notified() => control_sender.lock().await ...
RestartLocks ==
    /\ control_sender.select = "streaming"
    /\ LET cs == Acquire(SelectCompletes(control_sender), "restart")
       IN control_sender' = [cs EXCEPT !.select = "restart_branch",
                                       !.restartWaited = cs.at["restart"] = "lock"]
    /\ UNCHANGED <<mainVars, args, ret, video, vsync, events, notify>>

\* another arm of the select! completes and connection_pipeline returns
OtherArmReturns ==
    /\ control_sender.select = "streaming"
    /\ control_sender' = [SelectCompletes(control_sender) EXCEPT !.select = "returned"]
    /\ UNCHANGED <<mainVars, args, ret, video, vsync, events, notify>>

\* the runtime drops the aborted task of time_sync_send_loop at an await
TimeSyncTaskDropped ==
    /\ control_sender.aborted
    /\ control_sender.at["time_sync_send"] # "gone"
    /\ control_sender' = DropFuture(control_sender, "time_sync_send")
    /\ UNCHANGED <<mainVars, args, ret, video, vsync, events, notify>>

LockInit == Idle /\ args = NoCall /\ ret = NoCall /\ video = NoVideo
            /\ vsync = NoVsync /\ events = NoEvents /\ notify = NoNotify /\ control_sender = NoControlSender
LockNext ==
    \/ SupervisorStarts
    \/ KeepaliveLocks
    \/ TimeSyncLocks
    \/ \E t \in LockUsers, sendOk \in BOOLEAN : SendReturns(t, sendOk)
    \/ RestartLocks
    \/ OtherArmReturns
    \/ TimeSyncTaskDropped
LockSpec == LockInit /\ [][LockNext]_vars

\* socket sends complete or fail, and the runtime gets to drop an aborted task
FairLockSpec ==
    /\ LockSpec
    /\ WF_vars(\E t \in LockUsers, sendOk \in BOOLEAN : SendReturns(t, sendOk))
    /\ WF_vars(TimeSyncTaskDropped)

\* C11: keepalive_loop sends KeepAlive, then sleeps NETWORK_KEEPALIVE_INTERVAL
\* before the next send; the first failed send logs ClientDisconnected (once),
\* and the pipeline returns Ok.  Once the control socket is dead the supervisor
\* ends (with ClientDisconnected logged, unless another stream loop, a restart or
\* the shutdown ended it first), and the lifecycle loop starts its next iteration
\* unless the runtime is shut down.
DisconnectLogged == {"keepalive_send", "control_recv", "receive_loop"}
C11_KeepaliveDisconnect ==
    /\ [][(pc = "streaming" /\ pc' = "streaming" /\ sleepLeft' > sleepLeft)
            => (sleepLeft = 0 /\ sleepLeft' = NETWORK_KEEPALIVE_INTERVAL)]_vars
    /\ [](pc = "returned" /\ run.cause = "keepalive_send"
            => run.result = "ok" /\ run.clientDisconnected = 1)
    /\ (pc = "streaming" /\ control_socket = "dead")
          ~> \/ pc = "returned" /\ run.clientDisconnected = 1
             \/ pc = "returned" /\ run.cause \notin DisconnectLogged
             \/ pc \in {"restart_branch", "down"}
    /\ (pc = "returned") ~> (pc \in {"connect", "down"})
C11_Witness ==
    pc = "returned" /\ run.cause = "keepalive_send" /\ run.clientDisconnected = 1
    /\ sleepLeft = 0 /\ retryLeft = 0


C13_ClosestRateFirst ==
    ret.fn = "fps"
      => LET rates == args.available_refresh_rates
             P == args.preferred_fps
         IN IF rates = <<>> THEN ret.out = 0
            ELSE \E i \in 1..Len(rates) :
                    /\ ret.out = rates[i]
                    /\ \A j \in 1..Len(rates) : Abs(rates[i] - P) <= Abs(rates[j] - P)
                    /\ \A j \in 1..(i - 1) : Abs(rates[j] - P) > Abs(rates[i] - P)
C13_Witness ==
    /\ ret.fn = "fps" /\ args.available_refresh_rates = <<80, 72, 90>>
    /\ args.preferred_fps = 76 /\ ret.out = 80


\* C14: when a handshake resolves the OpenvrConfig that the handshake before it
\* resolved, it finds the persisted config equal: it returns its ConnectionInfo
\* (the pipeline goes on to StartStream), sends no Restarting, requests no driver
\* restart and leaves the persisted config as it is.
C14_SameConfigNoRestart ==
    [][(/\ hs = "send_config"
        /\ pc' = "start_stream" \/ hs' = "send_restarting"
        /\ resolved_config # NoneVal
        /\ resolved_config' = resolved_config)
         => /\ pc' = "start_stream" /\ hs' = "none"
            /\ ~run'.restartingSent
            /\ restartRequested' = restartRequested
            /\ driftPending' = driftPending
            /\ openvr_config' = openvr_config]_vars
C14_Witness ==
    pc = "start_stream" /\ driftPending /\ restartRequested
    /\ resolved_config = openvr_config /\ driverCfg # openvr_config


Is32Multiple(n) == n.r = 0

\* C15: every resolved eye width and height, of the stream and of the render
\* target, from a Scale or from an Absolute frame size, is a multiple of 32.
C15_EyeSizesAre32Multiples ==
    ret.fn = "resolution" =>
        /\ Is32Multiple(ret.out.video_eye.width)
        /\ Is32Multiple(ret.out.video_eye.height)
        /\ Is32Multiple(ret.out.target_eye.width)
        /\ Is32Multiple(ret.out.target_eye.height)


RECURSIVE IsSubSeq(_, _)
IsSubSeq(s, t) ==
    IF s = <<>> THEN TRUE
    ELSE IF t = <<>> THEN FALSE
    ELSE IF Head(s) = Head(t) THEN IsSubSeq(Tail(s), Tail(t))
    ELSE IsSubSeq(s, Tail(t))
\* the accepted frames that have not reached send_buffer yet, oldest first
VideoPending == video.buffer \o video.channel

\* C16 (as the code has it): the frames handed to the socket are accepted
\* frames in the order of their acceptance, none twice and none that is still
\* waiting; and over every step that leaves the video_send_loop running, the
\* frames written followed by the frames waiting stay as they are, or grow at
\* the end by the frame the callback has just accepted.
C16_FifoAtMostOnce ==
    /\ [](/\ IsSubSeq(video.written \o VideoPending, video.accepted)
          /\ \A i, j \in 1..Len(video.written \o VideoPending) :
                 i < j => (video.written \o VideoPending)[i]
                              < (video.written \o VideoPending)[j])
    /\ [][(video.receiver = "alive" /\ video'.receiver = "alive")
            => \/ video'.written \o VideoPending' = video.written \o VideoPending
               \/ /\ video'.accepted = Append(video.accepted, video.offered + 1)
                  /\ video'.written \o VideoPending'
                       = Append(video.written \o VideoPending,
                                video.offered + 1)]_vars
C16_Witness ==
    /\ video.written = <<1, 2>> /\ video.buffer = <<3>> /\ video.receiver = "alive"
    /\ video.accepted = <<1, 2, 3>>

\* C16 (as stated): no accepted frame is lost: each is written or still waiting
\* in the channel or in the loop's buffer.
C16_NoFrameLost ==
    \A i \in 1..Len(video.accepted) :
        \/ \E j \in 1..Len(video.written) : video.written[j] = video.accepted[i]
        \/ \E j \in 1..Len(VideoPending) : VideoPending[j] = video.accepted[i]


HandIds == {"LEFT_HAND_ID", "RIGHT_HAND_ID"}

\* C17: with controllers Disabled the stream setup posts DeviceConnected for
\* HEAD_ID only, no DevicePose of a hand is posted, and no motion of a hand is
\* delivered to the driver.
C17_DisabledControllersDropped ==
    (ret.fn = "input" /\ args.controllers = "Disabled") =>
        /\ \A i \in 1..Len(ret.out.device_connected) :
               ret.out.device_connected[i] = "HEAD_ID"
        /\ \A i \in 1..Len(ret.out.device_poses) :
               ret.out.device_poses[i] \notin HandIds
        /\ \A c \in 1..Len(ret.out.InputReceive) : \A i \in 1..2 :
               ret.out.InputReceive[c].controller[i] \notin HandIds


C18_Value == SerialValue(args.top_level_path, args.headset, args.controllers)

\* C18: alvr_get_serial_number writes at most max_length bytes and leaves the
\* buffer NUL-terminated; a value longer than max_length - 1 bytes comes out as
\* its first max_length - 1 bytes and a NUL.
C18_SerialNulTerminated ==
    (ret.fn = "serial_number" /\ ~ret.out.panic) =>
        /\ ret.out.length <= args.max_length
        /\ \E i \in 1..args.max_length : ret.out.serial_number[i] = 0
        /\ Len(C18_Value) > args.max_length - 1
              => ret.out.serial_number
                   = SubSeq(C18_Value, 1, args.max_length - 1) \o <<0>>


\* C19: to_capi_prop puts a string value into the 64-byte buffer NUL-terminated,
\* truncated if need be: at most 63 bytes of the string and a NUL, the rest of
\* the buffer untouched, and nothing written beyond the 64 bytes.
C19_StringFitsRawString ==
    (ret.fn = "to_capi_prop" /\ args.value.type = "String") =>
        LET kept == IF Len(args.value.value) < RAW_STRING_LEN
                    THEN Len(args.value.value) ELSE RAW_STRING_LEN - 1
        IN  /\ ~ret.out.crash
            /\ ret.out.beyond = <<>>
            /\ Len(ret.out.raw_string) = RAW_STRING_LEN
            /\ \A i \in 1..RAW_STRING_LEN :
                   ret.out.raw_string[i]
                       = IF i <= kept THEN args.value.value[i] ELSE 0


ReturnedOf(p) ==
    LET of_p == SelectSeq(events.returned, LAMBDA e : e.producer = p)
    IN  [i \in 1..Len(of_p) |-> of_p[i].k]

C23_ViewsConfigSigns ==
    ret.fn = "views_config" =>
        \A i \in 1..Len(ret.out) : \A eye \in 1..2 :
            LET in == args.views_config.fov[eye]
                out == ret.out[i].fov[eye]
            IN  IF args.path = "input"
                THEN /\ out.left = [unit |-> "rad", n |-> 0 - in.left.n]
                     /\ out.right = [unit |-> "rad", n |-> in.right.n]
                     /\ out.top = [unit |-> "rad", n |-> in.top.n]
                     /\ out.bottom = [unit |-> "rad", n |-> 0 - in.bottom.n]
                ELSE out = in
C23_Witness ==
    /\ ret.fn = "views_config" /\ args.path = "input" /\ Len(ret.out) = 1
    /\ ret.out[1].fov[2] = [left |-> [unit |-> "rad", n |-> -50],
                            right |-> [unit |-> "rad", n |-> 40],
                            top |-> [unit |-> "rad", n |-> 30],
                            bottom |-> [unit |-> "rad", n |-> -35]]


\* what a completed stream setup does, in this run so far
SetupDone ==
    \/ run.clientConnected \/ run.connectScript \/ run.headConnected
    \/ run.initCalls > 0
SetupFailures == {"unexpected_packet", "stream_ack_recv", "stream_setup_timeout"}

\* C24: the ClientConnected log, the connect script, the initial driver events
\* and InitializeStreaming happen only after StartStream was sent and
\* StreamReady was the packet received next, in the step in which the stream
\* socket is built while the 5 s sleep is still one arm of the select!; the
\* wait for the ack begins only with StartStream sent; and a run that ends on
\* another packet, on a receive error or on the timeout ends with Err, with
\* StartStream sent and none of the four done.
C24_StreamSetupOrder ==
    /\ [](SetupDone => /\ run.startStream /\ run.ack = "StreamReady"
                       /\ run.clientConnected /\ run.connectScript
                       /\ run.headConnected /\ run.initCalls = 1)
    /\ [](pc \in {"wait_ready", "stream_connect"} => run.startStream /\ ~SetupDone)
    /\ [][(~SetupDone /\ SetupDone')
            => /\ pc = "stream_connect" /\ pc' = "build_loops"
               /\ stream_guard']_vars
    /\ [][(pc # "stream_connect" /\ pc' = "stream_connect")
            => pc = "wait_ready" /\ run'.ack = "StreamReady"
               /\ sleepLeft' = STREAM_SETUP_TIMEOUT]_vars
    /\ []((pc = "returned" /\ run.cause \in SetupFailures)
            => /\ run.result = "err" /\ run.startStream /\ ~SetupDone
               /\ run.cause = "unexpected_packet" <=> run.ack = "other"
               /\ run.cause = "stream_ack_recv" <=> run.ack = "error")
C24_Witness ==
    /\ pc = "build_loops" /\ SetupDone /\ run.ack = "StreamReady" /\ run.startStream
    /\ iterElapsed > 0


\* C25: when RESTART_NOTIFIER fires during streaming, the send of Restarting is
\* awaited with the StreamCloseGuard alive: DeinitializeStreaming and the
\* disconnect script come in the step that ends the send and returns, whether
\* the send succeeded or failed, and the run ends Ok.
C25_RestartingBeforeCleanup ==
    /\ [](pc = "restart_branch"
            => /\ stream_guard /\ run.deinitCalls = 0 /\ ~run.disconnectScript
               /\ ~run.restartingSent /\ run.initCalls = 1)
    /\ [][(pc # "restart_branch" /\ pc' = "restart_branch")
            => pc = "streaming"]_vars
    /\ [][(pc = "restart_branch" /\ pc' = "returned")
            => /\ run'.cause = "restart" /\ run'.result = "ok"
               /\ run'.deinitCalls = 1 /\ run'.disconnectScript
               /\ ~stream_guard']_vars
C25_Witness ==
    /\ pc = "returned" /\ run.cause = "restart" /\ ~run.restartingSent
    /\ run.deinitCalls = 1 /\ run.disconnectScript /\ run.result = "ok"


\* C26 (as the code has it): in the discovery/handshake race a discovery failure
\* and a handshake failure end the run alike: connection_pipeline returns Ok,
\* so show_err has nothing to show, no StartStream was sent and nothing of the
\* stream setup was done.
C26_RaceFailuresAreSoft ==
    (pc = "returned" /\ run.cause \in {"discovery_failed"} \cup HandshakeFailures)
        => /\ run.result = "ok"
           /\ ~run.startStream /\ ~SetupDone /\ run.deinitCalls = 0
C26_Witness ==
    /\ pc = "returned" /\ run.cause = "discovery_failed" /\ run.result = "ok"
    /\ ~run.startStream /\ sleepLeft = CLEANUP_PAUSE

\* C26 (as stated): a discovery failure is a hard error (connection_pipeline
\* returns Err, which show_err shows), a handshake failure is soft, and neither
\* sends StartStream.
C26_DiscoveryFailureIsHard ==
    /\ (pc = "returned" /\ run.cause = "discovery_failed")
           => run.result = "err" /\ ~run.startStream
    /\ (pc = "returned" /\ run.cause \in HandshakeFailures)
           => run.result = "ok" /\ ~run.startStream


\* C27: within one connection_pipeline run discovery and handshake race only
\* while no client has been discovered.  When discovery resolves first the
\* in-flight handshake is dropped, trusted_discovered_client_id is set and
\* CLEANUP_PAUSE is slept; every later handshake of the run targets exactly the
\* discovered client and discovery is not run again.  When the handshake
\* resolves first discovery is dropped and the run goes on to stream setup with
\* the connection the handshake made.
C27_DiscoveryHandshakeRace ==
    /\ [](pc = "connect" /\ disc # "off"
            => trusted_discovered_client_id = NoneVal /\ hs # "none")
    /\ [](pc \in {"connect", "reloop_pause"} /\ trusted_discovered_client_id # NoneVal
            => /\ disc = "off"
               /\ pc = "connect" => client_ips = {trusted_discovered_client_id})
    /\ [][pc = "connect" /\ pc' = "reloop_pause"
            => /\ disc # "off" /\ disc' = "off"
               /\ hs' = "none" /\ control_socket' = "closed"
               /\ trusted_discovered_client_id' \in Hostnames
               /\ sleepLeft' = CLEANUP_PAUSE]_vars
    /\ [][pc = "reloop_pause" /\ pc' = "connect"
            => /\ sleepLeft = 0
               /\ trusted_discovered_client_id' = trusted_discovered_client_id
               /\ hs' = "connecting"]_vars
    /\ [][trusted_discovered_client_id # NoneVal
             /\ trusted_discovered_client_id' # trusted_discovered_client_id
            => /\ trusted_discovered_client_id' = NoneVal
               /\ pc' \notin {"connect", "reloop_pause"}]_vars
    /\ [][pc = "connect" /\ pc' = "start_stream"
            => /\ disc' = "off" /\ hs' = "none"
               /\ client_ip \in client_ips /\ client_ip' = client_ip
               /\ control_socket' = "open"]_vars

\* the handshake after a discovery has connected, to the discovered client
C27_Witness ==
    /\ pc = "connect" /\ hs = "recv_info"
    /\ trusted_discovered_client_id # NoneVal
    /\ client_ip = trusted_discovered_client_id
    /\ client_ips = {trusted_discovered_client_id}

\* C28: CLIENTS_UPDATED_NOTIFIER and RESTART_NOTIFIER each abort both the
\* pending connection attempts and the streaming: whichever of the two fires
\* while the run is in discovery/handshake or while the supervisor is streaming,
\* the select! awaited completes and the run ends.
C28_NotifiersAbortBoth ==
    [][notify'.fires # notify.fires /\ notify.phase \in SelectPhases
        => notify'.heard /\ notify'.phase \in {"restart_branch", "returned"}]_vars

\* what the code does: CLIENTS_UPDATED_NOTIFIER ends a run only in
\* discovery/handshake, RESTART_NOTIFIER only in streaming; fired at the other
\* select! the notifier changes nothing of the run
C28_EachNotifierOneSelect ==
    [][notify'.fires # notify.fires
        => /\ notify'.heard <=> \/ notify.phase = "connect" /\ notify'.fired = "CLIENTS_UPDATED"
                                \/ notify.phase = "streaming" /\ notify'.fired = "RESTART"
           /\ ~notify'.heard => notify'.phase = notify.phase
           /\ notify'.heard => notify'.phase \in {"restart_branch", "returned"}]_vars

\* CLIENTS_UPDATED_NOTIFIER has fired while streaming and the stream goes on
C28_Witness ==
    /\ notify.phase = "streaming" /\ notify.fired = "CLIENTS_UPDATED" /\ ~notify.heard

\* C29: at each successful stream setup (InitializeStreaming is called, the
\* event sender exists) the initial driver events are posted before
\* InitializeStreaming, each exactly once and in this order:
\* DeviceConnected(HEAD_ID) with interaction profile 0, VideoConfig with the
\* persisted eye resolution, and, only with controllers enabled,
\* DeviceConnected(LEFT_HAND_ID) then DeviceConnected(RIGHT_HAND_ID) with the
\* touch-controller interaction profile.
C29_InitialEventsOrder ==
    (/\ ret.fn = "stream_setup" /\ args.sender = "Some"
     /\ \E i \in 1..Len(ret.out) : ret.out[i].call = "InitializeStreaming")
      => ret.out =
           <<DriverCall("DeviceConnected", "HEAD_ID", "0", "-"),
             DriverCall("VideoConfig", "-", "-", args.eye_resolution)>>
           \o (IF args.controllers = "Enabled"
               THEN <<DriverCall("DeviceConnected", "LEFT_HAND_ID", "touch_controller", "-"),
                      DriverCall("DeviceConnected", "RIGHT_HAND_ID", "touch_controller", "-")>>
               ELSE <<>>)
           \o <<DriverCall("InitializeStreaming", "-", "-", "-")>>
C29_Witness ==
    /\ ret.fn = "stream_setup" /\ args.sender = "Some"
    /\ args.controllers = "Enabled" /\ Len(ret.out) = 5
    /\ ret.out[5].call = "InitializeStreaming"

\* C30 (as claimed): for each Input received, whatever device motions it
\* carries, the input loop builds the TrackingInfo and hands it to InputReceive
\* exactly once and keeps running; an Input without a motion for HEAD_ID,
\* LEFT_HAND_ID or RIGHT_HAND_ID does not end the loop.
C30_EveryInputDelivered ==
    ret.fn = "input"
      => /\ Len(ret.out.InputReceive) = 1
         /\ ret.out.InputReceive[1].HeadPose = "HEAD_ID"
         /\ ret.out.InputReceive[1].controller = <<"LEFT_HAND_ID", "RIGHT_HAND_ID">>

\* the Input of the last ViewsConfig posted before Input k, if there is one
LastPosted(k) ==
    {j \in 1..(k - 1) : ret.out[j] /\ \A i \in (j + 1)..(k - 1) : ~ret.out[i]}

\* C31: with the event sender there, the input loop posts a ViewsConfig for an
\* Input if and only if its ipd differs by more than epsilon from the ipd of
\* the last posted ViewsConfig (0 before the first) or its eye-0 FOV differs
\* from the eye-0 FOV of the last posted ViewsConfig (the default FOV before
\* the first); an Input in which only the eye-1 FOV changed posts none, and of
\* two consecutive identical Inputs at most one posts.
C31_ViewsConfigOnChange ==
    (ret.fn = "input_loop" /\ args.sender = "Some") =>
        /\ Len(ret.out) = Len(args.inputs)
        /\ \A k \in 1..Len(args.inputs) :
             LET in == args.inputs[k]
                 last_ipd == IF LastPosted(k) = {} THEN 0
                             ELSE args.inputs[CHOOSE j \in LastPosted(k) : TRUE].ipd_m
                 last_fov == IF LastPosted(k) = {} THEN DefaultFov
                             ELSE args.inputs[CHOOSE j \in LastPosted(k) : TRUE].fov[1]
             IN  /\ ret.out[k] <=> \/ in.ipd_m - last_ipd > F32_EPSILON
                                   \/ last_ipd - in.ipd_m > F32_EPSILON
                                   \/ in.fov[1] # last_fov
                 /\ (k > 1 /\ in.ipd_m = args.inputs[k - 1].ipd_m
                          /\ in.fov[1] = args.inputs[k - 1].fov[1]
                          /\ ret.out[k - 1])
                      => ~ret.out[k]
                 /\ (k > 1 /\ in = args.inputs[k - 1])
                      => ~(ret.out[k - 1] /\ ret.out[k])
\* the ipd creeps by one epsilon per Input: the second Input posts, against
\* the ipd of no post; then only the eye-1 FOV changes and nothing is posted
C31_Witness ==
    /\ ret.fn = "input_loop" /\ args.sender = "Some"
    /\ Len(args.inputs) = 3
    /\ args.inputs[1].ipd_m = 1 /\ args.inputs[2].ipd_m = 2 /\ args.inputs[3].ipd_m = 2
    /\ \A k \in 1..3 : args.inputs[k].fov[1] = DefaultFov
    /\ args.inputs[3].fov[2] # args.inputs[2].fov[2]
    /\ ret.out = <<FALSE, TRUE, FALSE>>

\* C32 (as claimed): in a running server (the event sender exists), without
\* tracking_ref_only every PlayspaceSync packet received is forwarded to the
\* playspace thread and makes exactly one call of SetChaperone, in reception
\* order; with tracking_ref_only no thread is started, nothing is forwarded
\* and SetChaperone is never called.
C32_EveryPlayspaceSyncSetsChaperone ==
    (ret.fn = "playspace" /\ args.sender = "Some") =>
        IF args.tracking_ref_only
        THEN ~ret.out.spawned /\ ret.out.forwarded = <<>> /\ ret.out.SetChaperone = <<>>
        ELSE /\ ret.out.spawned
             /\ ret.out.forwarded = PacketNumbers(args.received)
             /\ ret.out.SetChaperone = PacketNumbers(args.received)

\* the packets control_loop has an arm of its own for, and what each arm calls
DispatchedTo ==
    [PlayspaceSync |-> "playspace_sync_sender.send", RequestIdr |-> "RequestIDR",
     TimeSync |-> "TimeSyncReceive", VideoErrorReport |-> "VideoErrorReportReceive",
     ViewsConfig |-> "SetViewsConfig", Battery |-> "SetBattery"]
\* the receives before the first receive error
BeforeError(recvs) ==
    SubSeq(recvs, 1, IF \E i \in 1..Len(recvs) : recvs[i] = "Err"
                     THEN (CHOOSE i \in 1..Len(recvs) :
                             recvs[i] = "Err" /\ \A j \in 1..(i - 1) : recvs[j] # "Err") - 1
                     ELSE Len(recvs))

\* C33: the control loop dispatches every inbound control packet up to the
\* first receive error, in order (PlayspaceSync to the playspace channel unless
\* tracking_ref_only, RequestIdr, TimeSync, VideoErrorReport, ViewsConfig and
\* Battery to the driver, any other packet ignored without ending the loop);
\* the first receive error ends the loop as a disconnect: ClientDisconnected
\* is logged once and the loop returns Ok, which ends the supervisor's select!.
C33_ControlLoopDispatch ==
    ret.fn = "control_loop" =>
        LET served == SelectSeq(BeforeError(args.recvs),
                                LAMBDA r : /\ r \in DOMAIN DispatchedTo
                                           /\ ~(r = "PlayspaceSync" /\ args.tracking_ref_only))
        IN  /\ ret.out.calls = [i \in 1..Len(served) |-> DispatchedTo[served[i]]]
            /\ IF \E i \in 1..Len(args.recvs) : args.recvs[i] = "Err"
               THEN ret.out.clientDisconnected = 1 /\ ret.out.result = "Ok"
               ELSE ret.out.clientDisconnected = 0 /\ ret.out.result = "pending"
\* an unknown packet, then a Battery packet that is served, then the error
C33_Witness ==
    /\ ret.fn = "control_loop"
    /\ args.recvs = <<"StreamReady", "Battery", "Err">>
    /\ ret.out.calls = <<"SetBattery">> /\ ret.out.result = "Ok"

\* C34: over any number of iterations of the lifecycle loop the calls of
\* InitializeStreaming and DeinitializeStreaming alternate, starting with
\* InitializeStreaming: stream_guard tells that a session is active, every
\* InitializeStreaming finds no session active and starts one, every
\* DeinitializeStreaming ends the active one, and a new run starts with none.
C34_InitDeinitAlternate ==
    /\ [][run'.initCalls > run.initCalls
            => /\ ~stream_guard /\ stream_guard'
               /\ run'.initCalls = run.initCalls + 1
               /\ run'.deinitCalls = run.deinitCalls]_vars
    /\ [][run'.deinitCalls > run.deinitCalls
            => /\ stream_guard /\ ~stream_guard'
               /\ run'.deinitCalls = run.deinitCalls + 1
               /\ run'.initCalls = run.initCalls]_vars
    /\ [][stream_guard' # stream_guard
            => IF stream_guard' THEN run'.initCalls > run.initCalls
               ELSE run'.deinitCalls > run.deinitCalls]_vars
    /\ [][(run' = FreshRun /\ run # FreshRun) => ~stream_guard /\ ~stream_guard']_vars
\* a second session is initialised in the driver process that already had one
\* (its senders are still published), after that one was deinitialised
C34_Witness ==
    /\ pc = "build_loops" /\ stream_guard
    /\ run.initCalls = 1 /\ run.deinitCalls = 0
    /\ VIDEO_SENDER = "Some"

\* C35: in one run of connection_pipeline ClientDisconnected is logged at most
\* once, and only after ClientConnected was logged in that run, also when the
\* keepalive send, the control receive and the receive loop have all failed
\* when the select! is polled.
C35_ClientDisconnectedOnce ==
    /\ [](run.clientDisconnected <= 1)
    /\ [](run.clientDisconnected > 0 => run.clientConnected)
    /\ [][run'.clientDisconnected # run.clientDisconnected /\ run' # FreshRun
            => /\ run.clientConnected /\ run.clientDisconnected = 0
               /\ run'.clientDisconnected = 1
               /\ pc = "streaming" /\ pc' = "returned"
               /\ run'.cause \in DisconnectLogged]_vars
    /\ [][(pc = "streaming" /\ FailuresReady = DisconnectLogged /\ pc' = "returned")
            => run'.clientDisconnected <= 1]_vars
\* the three failures are there together when the select! is polled next
C35_Witness ==
    /\ pc = "streaming" /\ run.clientConnected /\ run.clientDisconnected = 0
    /\ FailuresReady = DisconnectLogged
    /\ loops["keepalive"] = "running" /\ loops["control_loop"] = "running"

\* C36: the writes to the control socket during streaming exclude each other:
\* a KeepAlive, TimeSync or Restarting send is under way only in the task that
\* holds the control_sender Mutex, for the whole send, so no two of them write
\* at the same time; a task waiting for the Mutex is not writing.
C36_ControlWritesExclusive ==
    /\ Cardinality({t \in LockUsers : control_sender.at[t] = "send"}) <= 1
    /\ \A t \in LockUsers : control_sender.at[t] = "send" <=> control_sender.owner = t
    /\ \A i \in 1..Len(control_sender.waiters) :
          /\ control_sender.at[control_sender.waiters[i]] = "lock"
          /\ control_sender.owner \notin {"none", control_sender.waiters[i]}
\* the keepalive send is under way and a TimeSync waits for the Mutex
C36_Witness ==
    /\ control_sender.at["keepalive"] = "send"
    /\ control_sender.at["time_sync_send"] = "lock"

\* C37: the restart branch does not deadlock on the control_sender Mutex: once
\* RESTART_NOTIFIER has fired, whoever holds the Mutex or waits for it is
\* dropped or finishes its send, the restart branch gets the Mutex, attempts the
\* send of Restarting and connection_pipeline returns.
C37_RestartBranchReturns ==
    /\ (control_sender.select = "restart_branch") ~> (control_sender.select = "returned")
    /\ [][(control_sender.select = "restart_branch"
            /\ control_sender'.select = "returned")
            => control_sender.at["restart"] = "send"]_vars
\* the restart branch had to wait for the Mutex and has returned
C37_Witness ==
    /\ control_sender.select = "returned"
    /\ control_sender.restartWaited /\ control_sender.at["restart"] = "gone"

\* what a producer that returns does with its item: nothing without a
\* published sender; dropped when the published sender is stale (the loop that
\* published it has ended, a later session may be running); queued, for the
\* session that published the sender only, when that session's loop runs
ProducerDropsOrDelivers ==
    (ret.fn = "producer" /\ ret.out.result = "returned") =>
        /\ args.published = 0 => ret.out.item = "not_sent"
        /\ (args.published # 0 /\ args.published # args.running)
              => ret.out.item = "dropped"
        /\ ret.out.item = "queued"
              => ret.out.session = args.published /\ args.published = args.running
        /\ ret.out.item # "queued" => ret.out.session = 0

\* C38 (as claimed): video_send, time_sync_send and alvr_send_haptics never
\* fail and never block, whatever the state of their sender: they drop the item
\* when no sender is published and when the published one is stale, and an
\* item sent to a stale sender is never delivered to a later session.
C38_ProducersNeverFail ==
    /\ ret.fn = "producer" => ret.out.result = "returned"
    /\ ProducerDropsOrDelivers

\* C39: a handshake that finds the resolved OpenvrConfig equal to the persisted
\* one leaves the persisted session as it was; the stripping of foveated
\* rendering (linux) is in the session serialised into the ClientConfigPacket
\* only: the persisted session keeps its setting, and the OpenvrConfig that is
\* compared is resolved from the unstripped setting.
C39_HandshakeKeepsSession ==
    ret.fn = "client_handshake" =>
        /\ ret.out.session_desc.foveated_rendering_enabled =
              (args.target_os # "linux" /\ args.session.foveated_rendering_enabled)
        /\ [ret.out.session_desc EXCEPT !.foveated_rendering_enabled =
                args.session.foveated_rendering_enabled] = args.session
        /\ ret.out.session.foveated_rendering_enabled =
              args.session.foveated_rendering_enabled
        /\ ret.out.session.universe_id = args.session.universe_id
        /\ ret.out.new_openvr_config # <<>> =>
              /\ ret.out.new_openvr_config[1].enable_foveated_rendering =
                    args.session.foveated_rendering_enabled
              /\ (ret.out.new_openvr_config[1] = args.session.openvr_config)
                    => (ret.out.result = "Ok" /\ ret.out.session = args.session)
              /\ ret.out.result = "Ok"
                    => ret.out.new_openvr_config[1] = args.session.openvr_config
        /\ ret.out.result = "Err" => ret.out.session = args.session
\* on linux, foveated rendering enabled and already in the persisted config:
\* the packet's session has it disabled and the handshake returned Ok
C39_Witness ==
    /\ ret.fn = "client_handshake" /\ ret.out.result = "Ok"
    /\ args.target_os = "linux" /\ args.session.foveated_rendering_enabled
    /\ args.session.openvr_config.enable_foveated_rendering
    /\ ~ret.out.session_desc.foveated_rendering_enabled
    /\ ret.out.session = args.session
====
